---- MODULE Spec2Model ----
(***************************************************************************)
(* rpcgate: the balancers (round-robin, least-connection, P2C-EWMA), the   *)
(* JSON-RPC error classifier and the HTTP dispatch pipeline.               *)
(*                                                                         *)
(* Go float64 values are modelled as exact rationals <<num, den>> with     *)
(* den > 0, kept in lowest terms; +Inf is <<1, 0>> and NaN is <<0, 0>>.    *)
(* time.Time and time.Duration are integers counted in clock ticks,        *)
(* TicksPerMs ticks to the millisecond, so that Duration.Milliseconds()    *)
(* truncates.                                                              *)
(***************************************************************************)
EXTENDS Integers, Sequences, FiniteSets, TLC

VARIABLES
    kind,        \* balancer type of the chain (Server.nameToLBAlgo)
    cfg,         \* P2CEWMA.smooth, loadNormalizer, penaltyDecay, cooldown
    providers,   \* index -> Provider / LCProvider runtime stats
    currentIX,   \* RoundRobin.currentIX
    now,         \* the wall clock read by time.Now()
    failAt,      \* history: index -> time of the latest onRelease(ok=false), -1 if none
    nrel,        \* history: number of onRelease calls (provider-level specification)
    nborrow,     \* history: number of Borrow calls (balancer-level specification)
    scoreObs,    \* the latest Provider.score call: its inputs and its result
    cl,          \* callers of Borrow/Release (balancer-level); Server.clients (stages)
    req,         \* HTTP requests in the pipeline; the calls of the serial specification
    cin,         \* input of the function under study (classifier, onRelease, decoder)
    cout         \* its output

vars == <<kind, cfg, providers, currentIX, now, failAt, nrel, nborrow, scoreObs, cl, req, cin, cout>>

\* The classifier's input and output before it has run.
NoInput == [code |-> 0, msg |-> <<>>]
NoOutput == [done |-> FALSE, user |-> FALSE]

(***************************************************************************)
(* Bounds of the model.                                                    *)
(***************************************************************************)
MaxTime == 3        \* the clock runs from 0 to MaxTime ticks
MaxReleases == 3    \* onRelease calls in the provider-level specification
MaxFloatReleases == 8   \* onRelease calls in the float specification
MaxInFlight == 2    \* borrows outstanding in the provider-level specification
TicksPerMs == 2     \* clock ticks per millisecond

(***************************************************************************)
(* Exact rationals standing for float64.                                   *)
(***************************************************************************)
RECURSIVE GCD(_, _)
GCD(a, b) == IF b = 0 THEN a ELSE GCD(b, a % b)

Abs(a) == IF a < 0 THEN -a ELSE a

\* +Inf, -Inf is <<-1, 0>>, and NaN (0/0, 0 * Inf, Inf - Inf).
Inf == <<1, 0>>
NaN == <<0, 0>>
IsNaN(a) == a = NaN
IsInf(a) == a[2] = 0 /\ a[1] # 0

Rat(n, d) ==
    LET g == GCD(Abs(n), Abs(d))
        s == IF d < 0 THEN -1 ELSE 1
    IN  IF n = 0 THEN (IF d = 0 THEN NaN ELSE <<0, 1>>) ELSE <<s * (n \div g), s * (d \div g)>>

RInt(n) == <<n, 1>>
RAdd(a, b) ==
    IF IsNaN(a) \/ IsNaN(b) THEN NaN
    ELSE IF IsInf(a) /\ IsInf(b) THEN (IF a = b THEN a ELSE NaN)
    ELSE IF IsInf(a) THEN a
    ELSE IF IsInf(b) THEN b
    ELSE Rat(a[1] * b[2] + b[1] * a[2], a[2] * b[2])
RSub(a, b) == RAdd(a, <<-b[1], b[2]>>)
RMul(a, b) ==
    LET g1 == GCD(Abs(a[1]), b[2])
        g2 == GCD(Abs(b[1]), a[2])
        h1 == IF g1 = 0 THEN 1 ELSE g1
        h2 == IF g2 = 0 THEN 1 ELSE g2
    IN  Rat((a[1] \div h1) * (b[1] \div h2), (a[2] \div h2) * (b[2] \div h1))
\* a / b: a times the reciprocal; x / 0 is Inf, 0 / 0 is NaN.
RDiv(a, b) == RMul(a, IF b[1] < 0 THEN <<-b[2], -b[1]>> ELSE <<b[2], b[1]>>)
\* a < b and a <= b as float64 compares: false when either is NaN.
RLess(a, b) ==
    IF IsNaN(a) \/ IsNaN(b) THEN FALSE
    ELSE IF a[2] = 0 /\ b[2] = 0 THEN a[1] < b[1]
    ELSE a[1] * b[2] < b[1] * a[2]
RLeq(a, b) == ~IsNaN(a) /\ ~IsNaN(b) /\ ~RLess(b, a)

(***************************************************************************)
(* time.Duration.Milliseconds(): the whole milliseconds of a duration.     *)
(***************************************************************************)
Milliseconds(d) == d \div TicksPerMs

(***************************************************************************)
(* P2C-EWMA provider (Provider, score, onRelease, inFlightInc/Dec).        *)
(***************************************************************************)
baseEWMA == 75
penaltyValue == <<1, 2>>
penaltyLostValue == <<1, 20>>

\* The zero value of Provider / LCProvider.
NewProvider == [ewmaMS |-> <<0, 1>>, penalty |-> <<0, 1>>, unhealthyUntil |-> 0, inFlight |-> 0]

\* NewP2CEWMA / NewLeastConnection: one zero-valued provider per payload.
NewProviders(n) == [i \in 0..(n - 1) |-> NewProvider]

\* ewmaSmooth, ewmaLoadNormalizer, ewmaPenaltyDecay, ewmaCooldown (10 s).
DefaultCfg ==
    [smooth |-> <<3, 10>>, loadNormalizer |-> <<8, 1>>, penaltyDecay |-> <<4, 5>>,
     cooldown |-> 10 * 1000 * TicksPerMs]

\* P2CEWMAConfig{}: no parameter given.
ZeroP2CEWMA ==
    [smooth |-> <<0, 1>>, loadNormalizer |-> <<0, 1>>, penaltyDecay |-> <<0, 1>>, cooldown |-> 0]

\* Parameters NewP2CEWMA is called with: those validateGlobalRPCConfig
\* accepts or fills in, and the zero value, which a chain that names p2cewma
\* and gives no parameter keeps (validateRPCs validates a copy).
Configs ==
    { DefaultCfg,
      [smooth |-> <<1, 2>>, loadNormalizer |-> <<2, 1>>, penaltyDecay |-> <<1, 10>>, cooldown |-> 2],
      ZeroP2CEWMA,
      [smooth |-> <<1, 1>>, loadNormalizer |-> <<4, 1>>, penaltyDecay |-> <<1, 1>>, cooldown |-> 1] }

\* score with the cooldown check left out.
scoreNoCooldown(p, tnow, loadNormalizer) ==
    LET base == IF p.ewmaMS = <<0, 1>> THEN RInt(baseEWMA) ELSE p.ewmaMS
        reqLoad == RAdd(RInt(1), RDiv(RInt(p.inFlight), loadNormalizer))
    IN  RMul(RMul(base, reqLoad), RAdd(RInt(1), p.penalty))

score(p, tnow, loadNormalizer) ==
    IF tnow < p.unhealthyUntil
    THEN Inf
    ELSE LET base == IF p.ewmaMS = <<0, 1>> THEN RInt(baseEWMA) ELSE p.ewmaMS
             reqLoad == RAdd(RInt(1), RDiv(RInt(p.inFlight), loadNormalizer))
         IN  RMul(RMul(base, reqLoad), RAdd(RInt(1), p.penalty))

\* onRelease with the penalty never snapped to 0.
onReleaseNoSnap(p, ok, lat, alpha, penaltyDecay, cooldown, tnow) ==
    LET ms == RInt(Milliseconds(lat))
        first == IF p.ewmaMS = <<0, 1>> THEN ms ELSE p.ewmaMS
        ewma == RAdd(RMul(RSub(RInt(1), alpha), first), RMul(ms, alpha))
    IN  IF ~ok
        THEN [p EXCEPT !.ewmaMS = ewma, !.penalty = penaltyValue,
                       !.unhealthyUntil = tnow + cooldown]
        ELSE [p EXCEPT !.ewmaMS = ewma, !.penalty = RMul(p.penalty, penaltyDecay)]

\* onRelease with a success ending the cooldown.
onReleaseClearsCooldown(p, ok, lat, alpha, penaltyDecay, cooldown, tnow) ==
    LET ms == RInt(Milliseconds(lat))
        first == IF p.ewmaMS = <<0, 1>> THEN ms ELSE p.ewmaMS
        ewma == RAdd(RMul(RSub(RInt(1), alpha), first), RMul(ms, alpha))
        decayed == RMul(p.penalty, penaltyDecay)
    IN  IF ~ok
        THEN [p EXCEPT !.ewmaMS = ewma, !.penalty = penaltyValue,
                       !.unhealthyUntil = tnow + cooldown]
        ELSE [p EXCEPT !.ewmaMS = ewma, !.unhealthyUntil = 0,
                       !.penalty = IF RLess(decayed, penaltyLostValue) THEN <<0, 1>> ELSE decayed]

\* onRelease with a success starting the cooldown anew.
onReleaseRestartsCooldown(p, ok, lat, alpha, penaltyDecay, cooldown, tnow) ==
    LET ms == RInt(Milliseconds(lat))
        first == IF p.ewmaMS = <<0, 1>> THEN ms ELSE p.ewmaMS
        ewma == RAdd(RMul(RSub(RInt(1), alpha), first), RMul(ms, alpha))
        decayed == RMul(p.penalty, penaltyDecay)
    IN  IF ~ok
        THEN [p EXCEPT !.ewmaMS = ewma, !.penalty = penaltyValue,
                       !.unhealthyUntil = tnow + cooldown]
        ELSE [p EXCEPT !.ewmaMS = ewma,
                       !.unhealthyUntil = IF tnow < @ THEN tnow + cooldown ELSE @,
                       !.penalty = IF RLess(decayed, penaltyLostValue) THEN <<0, 1>> ELSE decayed]

\* onRelease with a failure adding to the penalty already held.
onReleaseAddPenalty(p, ok, lat, alpha, penaltyDecay, cooldown, tnow) ==
    LET ms == RInt(Milliseconds(lat))
        first == IF p.ewmaMS = <<0, 1>> THEN ms ELSE p.ewmaMS
        ewma == RAdd(RMul(RSub(RInt(1), alpha), first), RMul(ms, alpha))
        decayed == RMul(p.penalty, penaltyDecay)
    IN  IF ~ok
        THEN [p EXCEPT !.ewmaMS = ewma, !.penalty = RAdd(p.penalty, penaltyValue),
                       !.unhealthyUntil = tnow + cooldown]
        ELSE [p EXCEPT !.ewmaMS = ewma,
                       !.penalty = IF RLess(decayed, penaltyLostValue) THEN <<0, 1>> ELSE decayed]

\* onRelease without the first-sample branch.
onReleaseNoFirstSample(p, ok, lat, alpha, penaltyDecay, cooldown, tnow) ==
    LET ms == RInt(Milliseconds(lat))
        ewma == RAdd(RMul(RSub(RInt(1), alpha), p.ewmaMS), RMul(ms, alpha))
        decayed == RMul(p.penalty, penaltyDecay)
    IN  IF ~ok
        THEN [p EXCEPT !.ewmaMS = ewma, !.penalty = penaltyValue,
                       !.unhealthyUntil = tnow + cooldown]
        ELSE [p EXCEPT !.ewmaMS = ewma,
                       !.penalty = IF RLess(decayed, penaltyLostValue) THEN <<0, 1>> ELSE decayed]

onRelease(p, ok, lat, alpha, penaltyDecay, cooldown, tnow) ==
    LET ms == RInt(Milliseconds(lat))
        first == IF p.ewmaMS = <<0, 1>> THEN ms ELSE p.ewmaMS
        ewma == RAdd(RMul(RSub(RInt(1), alpha), first), RMul(ms, alpha))
        decayed == RMul(p.penalty, penaltyDecay)
    IN  IF ~ok
        THEN [p EXCEPT !.ewmaMS = ewma, !.penalty = penaltyValue,
                       !.unhealthyUntil = tnow + cooldown]
        ELSE [p EXCEPT !.ewmaMS = ewma,
                       !.penalty = IF RLess(decayed, penaltyLostValue) THEN <<0, 1>> ELSE decayed]

inFlightInc(p) == [p EXCEPT !.inFlight = @ + 1]
\* inFlightDec taking two off the counter.
inFlightDecTwice(p) == [p EXCEPT !.inFlight = @ - 2]

inFlightDec(p) == [p EXCEPT !.inFlight = @ - 1]

(***************************************************************************)
(* Provider-level specification: one P2C-EWMA provider driven the way the  *)
(* balancer drives it (score, onRelease, inFlightInc, inFlightDec) under a *)
(* non-decreasing clock.                                                   *)
(***************************************************************************)
Latencies == {0, 3, 16}   \* durations in ticks handed to onRelease

\* No score call: pc is "clock" once the caller has read the clock, "loaded"
\* once score has copied the statistics under the mutex, "done" when it has
\* returned; at is the clock value, p what the call has read, s its result.
NoObs == [pc |-> "none", at |-> -1, p |-> NewProvider, s |-> <<0, 1>>]

\* scoreObs after a step of another goroutine: a call under way goes on, a
\* finished one is forgotten.
ObsKept == IF scoreObs.pc \in {"clock", "loaded"} THEN scoreObs ELSE NoObs

ProvInit ==
    /\ kind = "p2cewma"
    /\ cfg \in Configs
    /\ providers = NewProviders(1)
    /\ currentIX = 0
    /\ now = 0
    /\ failAt = [i \in {0} |-> -1]
    /\ nrel = 0
    /\ nborrow = 0
    /\ scoreObs = NoObs
    /\ cl = <<>>
    /\ req = <<>>
    /\ cin = NoInput
    /\ cout = NoOutput

ProvTick ==
    /\ now < MaxTime
    /\ now' = now + 1
    /\ UNCHANGED <<kind, cfg, providers, currentIX, failAt, nrel, nborrow, scoreObs, cl, req, cin, cout>>

\* p2c: now := time.Now(), ahead of the score calls.
ProvScoreClock ==
    /\ scoreObs.pc \in {"none", "done"}
    /\ scoreObs' = [NoObs EXCEPT !.pc = "clock", !.at = now]
    /\ UNCHANGED <<kind, cfg, providers, currentIX, now, failAt, nrel, nborrow, cl, req, cin, cout>>

\* Provider.score under the mutex: ewmaMS, penalty and unhealthyUntil are
\* copied; in cooldown the call returns +Inf without reading inFlight.
ProvScoreRead ==
    /\ scoreObs.pc = "clock"
    /\ LET p == [providers[0] EXCEPT !.inFlight = 0]
       IN  scoreObs' = IF scoreObs.at < p.unhealthyUntil
                       THEN [scoreObs EXCEPT !.pc = "done", !.p = p,
                                             !.s = score(p, scoreObs.at, cfg.loadNormalizer)]
                       ELSE [scoreObs EXCEPT !.pc = "loaded", !.p = p]
    /\ UNCHANGED <<kind, cfg, providers, currentIX, now, failAt, nrel, nborrow, cl, req, cin, cout>>

\* Provider.score after the mutex: the atomic load of inFlight and the
\* result.
ProvScoreLoad ==
    /\ scoreObs.pc = "loaded"
    /\ LET p == [scoreObs.p EXCEPT !.inFlight = providers[0].inFlight]
       IN  scoreObs' = [scoreObs EXCEPT !.pc = "done", !.p = p,
                                        !.s = score(p, scoreObs.at, cfg.loadNormalizer)]
    /\ UNCHANGED <<kind, cfg, providers, currentIX, now, failAt, nrel, nborrow, cl, req, cin, cout>>

ProvOnRelease(ok, lat) ==
    /\ nrel < MaxReleases
    /\ providers' = [providers EXCEPT ![0] =
                        onRelease(@, ok, lat, cfg.smooth, cfg.penaltyDecay, cfg.cooldown, now)]
    /\ failAt' = IF ok THEN failAt ELSE [failAt EXCEPT ![0] = now]
    /\ nrel' = nrel + 1
    /\ scoreObs' = ObsKept
    /\ UNCHANGED <<kind, cfg, currentIX, now, nborrow, cl, req, cin, cout>>

ProvInFlightInc ==
    /\ providers[0].inFlight < MaxInFlight
    /\ providers' = [providers EXCEPT ![0] = inFlightInc(@)]
    /\ scoreObs' = ObsKept
    /\ UNCHANGED <<kind, cfg, currentIX, now, failAt, nrel, nborrow, cl, req, cin, cout>>

ProvInFlightDec ==
    /\ providers[0].inFlight > 0
    /\ providers' = [providers EXCEPT ![0] = inFlightDec(@)]
    /\ scoreObs' = ObsKept
    /\ UNCHANGED <<kind, cfg, currentIX, now, failAt, nrel, nborrow, cl, req, cin, cout>>

ProvNext ==
    \/ ProvTick
    \/ ProvScoreClock
    \/ ProvScoreRead
    \/ ProvScoreLoad
    \/ \E ok \in BOOLEAN, lat \in Latencies : ProvOnRelease(ok, lat)
    \/ ProvInFlightInc
    \/ ProvInFlightDec

SpecProvider == ProvInit /\ [][ProvNext]_vars

(***************************************************************************)
(* Claims checked under SpecProvider.                                      *)
(***************************************************************************)

\* C7: for every P2C-EWMA provider p and every time t at which score is
\* called, the result is +Inf when t < p.unhealthy_until, and otherwise
\* base * (1 + inflight/L) * (1 + penalty) with base = ewma_ms if ewma_ms > 0
\* and 75 otherwise.
C7_ScoreFormula ==
    scoreObs.pc = "done" =>
        LET p == scoreObs.p
            L == cfg.loadNormalizer
            base == IF RLess(<<0, 1>>, p.ewmaMS) THEN p.ewmaMS ELSE <<75, 1>>
            load == Rat(L[1] + p.inFlight * L[2], L[1])
            pen == Rat(p.penalty[2] + p.penalty[1], p.penalty[2])
        IN  IF scoreObs.at < p.unhealthyUntil
            THEN scoreObs.s = Inf
            ELSE scoreObs.s = RMul(base, RMul(load, pen))

\* A score taken in cooldown of a provider that has latency, load and penalty.
C7_Witness ==
    /\ scoreObs.pc = "done"
    /\ scoreObs.at < scoreObs.p.unhealthyUntil
    /\ IsInf(scoreObs.s)
    /\ providers[0].inFlight > 0
    /\ scoreObs.p.ewmaMS # <<0, 1>>

C10_PenaltyRange ==
    \A i \in DOMAIN providers :
        \/ providers[i].penalty = <<0, 1>>
        \/ /\ RLeq(<<1, 20>>, providers[i].penalty)
           /\ RLeq(providers[i].penalty, <<1, 2>>)

C10_SuccessDecays ==
    \A lat \in Latencies :
        (nrel' # nrel /\ ProvOnRelease(TRUE, lat)) =>
            LET prod == RMul(providers[0].penalty, cfg.penaltyDecay)
            IN  providers'[0].penalty = IF RLess(prod, <<1, 20>>) THEN <<0, 1>> ELSE prod

\* C10: in every state reachable by releases (beta in [0,1]) penalty is exactly
\* 0 or lies in [0.05, 0.5]; a successful release multiplies penalty by beta
\* and sets it to 0 when the product is below 0.05.
C10_Penalty == [](C10_PenaltyRange) /\ [][C10_SuccessDecays]_vars

\* A penalty that a success has snapped back to 0 after a failure, under a
\* decay that is not 0 itself.
C10_Witness ==
    /\ failAt[0] # -1
    /\ providers[0].penalty = <<0, 1>>
    /\ cfg.penaltyDecay # <<0, 1>>

\* The class of provider p at time t in the state-machine view.
Class(p, t) ==
    IF t < p.unhealthyUntil THEN "Cooldown"
    ELSE IF RLess(<<0, 1>>, p.penalty) THEN "Penalized"
    ELSE IF p.ewmaMS = <<0, 1>> THEN "Fresh"
    ELSE "Warm"

\* The step is an onRelease on the provider (the only step that counts one).
IsRelease == nrel' # nrel /\ \E ok \in BOOLEAN, lat \in Latencies : ProvOnRelease(ok, lat)

\* C33 as stated: classifying a P2C-EWMA provider as Fresh (ewma=0,
\* penalty=0), Warm (ewma>0, penalty=0), Penalized (penalty>0, now >=
\* unhealthy_until) or Cooldown (now < unhealthy_until), the provider's class
\* changes only in a step that is a release(ok, latency) on that provider; no
\* borrow and no other step (including the passage of time) changes it, and
\* every release on a Fresh provider leaves it non-Fresh.
C33_ClassAsStatedStep ==
    /\ Class(providers'[0], now') # Class(providers[0], now) => IsRelease
    /\ (IsRelease /\ Class(providers[0], now) = "Fresh") =>
          Class(providers'[0], now') # "Fresh"
C33_ClassAsStated == [][C33_ClassAsStatedStep]_vars

\* C33, amended: the class changes only in a release on that provider or
\* when the clock reaches unhealthy_until of a provider in Cooldown; no
\* borrow changes it; a release on a Fresh provider that reports a failure
\* or a latency of at least one millisecond leaves it non-Fresh.
C33_ClassStep ==
    /\ Class(providers'[0], now') # Class(providers[0], now) =>
          \/ IsRelease
          \/ /\ ProvTick
             /\ Class(providers[0], now) = "Cooldown"
             /\ now' >= providers[0].unhealthyUntil
    /\ \A ok \in BOOLEAN, lat \in Latencies :
          (nrel' # nrel /\ Class(providers[0], now) = "Fresh"
              /\ (~ok \/ Milliseconds(lat) >= 1) /\ ProvOnRelease(ok, lat)) =>
                 Class(providers'[0], now') # "Fresh"
C33_Class == [][C33_ClassStep]_vars

\* A provider that a failure sent to Cooldown and the clock has brought to
\* Penalized, no release in between.
C33_Witness ==
    /\ failAt[0] # -1
    /\ nrel = 1
    /\ providers[0].unhealthyUntil > failAt[0]
    /\ now >= providers[0].unhealthyUntil
    /\ Class(providers[0], now) = "Penalized"

(***************************************************************************)
(* Balancer-level specification: NumCallers goroutines call Borrow and the *)
(* release callback on one chain's balancer.  Each shared-memory access    *)
(* (a mutex-protected section, an atomic load or add) is one step.  The    *)
(* clock stands still here; the provider-level and the pipeline            *)
(* specifications let it run.                                              *)
(***************************************************************************)
NumCallers == 2     \* concurrent callers of Borrow/Release
MaxBorrows == 2     \* Borrow calls made in one behaviour
MaxProviders == 2   \* providers configured for the chain

P2CEWMAName == "p2cewma"
RRName == "round-robin"
LCName == "least-connection"

\* New: whether the switch on rpc.BalancerType registers a balancer for the
\* chain's path.
balancerRegistered(rpc) == rpc.BalancerType \in {P2CEWMAName, RRName, LCName}

Callers == 1..NumCallers

LBConfigs ==
    { DefaultCfg, ZeroP2CEWMA,
      [smooth |-> <<1, 2>>, loadNormalizer |-> <<2, 1>>, penaltyDecay |-> <<1, 10>>, cooldown |-> 0] }

LBLatencies == {0, 4}

\* A goroutine outside Borrow and the release callback.  Inside p2c, i and j
\* are the candidates, tnow the clock value, rd what score has copied, si
\* and sj the scores, cool the candidates score found in cooldown.
IdleCaller ==
    [pc |-> "idle", i |-> -1, j |-> -1, tnow |-> -1, rd |-> NewProvider,
     si |-> <<0, 1>>, sj |-> <<0, 1>>, cool |-> {}, held |-> -1, k |-> 0,
     minInFlight |-> 0]

NProviders == Cardinality(DOMAIN providers)

\* p2c: the second index is bumped when it collides with the first.
p2cSecond(i, j) == IF i = j THEN j + 1 ELSE j

\* p2cChoose with the comparison reversed.
p2cChooseHigher(i, j, si, sj) == IF RLess(sj, si) THEN i ELSE j

\* p2c: the provider with the lower score; pj on a tie.
p2cChoose(i, j, si, sj) == IF RLess(si, sj) THEN i ELSE j

\* pickLeastStep that never replaces the seed.
pickLeastStepKeepSeed(min, minInFlight, k, inFlight) == <<min, minInFlight>>

\* pickLeast: one iteration of the scan, <<minProvider, minInFlight>> updated.
pickLeastStep(min, minInFlight, k, inFlight) ==
    IF inFlight < minInFlight THEN <<k, inFlight>> ELSE <<min, minInFlight>>

LBInit ==
    /\ kind \in {P2CEWMAName, RRName, LCName}
    /\ cfg \in (IF kind = P2CEWMAName THEN LBConfigs ELSE {DefaultCfg})
    /\ \E n \in 0..MaxProviders :
          /\ providers = NewProviders(n)
          /\ failAt = [i \in 0..(n - 1) |-> -1]
    /\ currentIX = 0
    /\ now = 0
    /\ nrel = 0
    /\ nborrow = 0
    /\ scoreObs = NoObs
    /\ cl = [c \in Callers |-> IdleCaller]
    /\ req = <<>>
    /\ cin = NoInput
    /\ cout = NoOutput

\* RoundRobin.Borrow: the whole body runs under rr.mutex.  Indexing an empty
\* payload slice panics.
RRBorrow(c) ==
    /\ kind = RRName
    /\ cl[c].pc = "idle"
    /\ nborrow < MaxBorrows
    /\ nborrow' = nborrow + 1
    /\ IF NProviders = 0
       THEN /\ cl' = [cl EXCEPT ![c].pc = "panicked"]
            /\ UNCHANGED currentIX
       ELSE /\ cl' = [cl EXCEPT ![c].pc = "holding", ![c].held = currentIX]
            /\ currentIX' = IF currentIX + 1 = NProviders THEN 0 ELSE currentIX + 1
    /\ UNCHANGED <<kind, cfg, providers, now, failAt, nrel, scoreObs, req, cin, cout>>

\* LeastConnection.Borrow / pickLeast up to the seeding of the minimum.
LCBorrow(c) ==
    /\ kind = LCName
    /\ cl[c].pc = "idle"
    /\ nborrow < MaxBorrows
    /\ nborrow' = nborrow + 1
    /\ IF NProviders = 0
       THEN cl' = [cl EXCEPT ![c].pc = "holding", ![c].held = -1]
       ELSE IF NProviders = 1
       THEN cl' = [cl EXCEPT ![c].pc = "inc", ![c].held = 0]
       ELSE \E seed \in DOMAIN providers :
               cl' = [cl EXCEPT ![c].pc = "scan", ![c].held = seed, ![c].k = 0,
                                ![c].minInFlight = providers[seed].inFlight]
    /\ UNCHANGED <<kind, cfg, providers, currentIX, now, failAt, nrel, scoreObs, req, cin, cout>>

\* pickLeast: one iteration of the scan (one atomic load of inFlight).
LCScan(c) ==
    /\ cl[c].pc = "scan"
    /\ LET k == cl[c].k
           m == pickLeastStep(cl[c].held, cl[c].minInFlight, k, providers[k].inFlight)
       IN  cl' = [cl EXCEPT ![c].held = m[1], ![c].minInFlight = m[2],
                            ![c].k = IF k + 1 = NProviders THEN 0 ELSE k + 1,
                            ![c].pc = IF k + 1 = NProviders THEN "inc" ELSE "scan"]
    /\ UNCHANGED <<kind, cfg, providers, currentIX, now, failAt, nrel, nborrow, scoreObs, req, cin, cout>>

\* P2CEWMA.Borrow / p2c up to the reading of the clock.
P2CBorrow(c) ==
    /\ kind = P2CEWMAName
    /\ cl[c].pc = "idle"
    /\ nborrow < MaxBorrows
    /\ nborrow' = nborrow + 1
    /\ IF NProviders = 0
       THEN cl' = [cl EXCEPT ![c].pc = "holding", ![c].held = -1]
       ELSE IF NProviders = 1
       THEN cl' = [cl EXCEPT ![c].pc = "inc", ![c].held = 0]
       ELSE \E i \in 0..(NProviders - 1), j \in 0..(NProviders - 2) :
               cl' = [cl EXCEPT ![c].pc = "read_i", ![c].i = i, ![c].j = p2cSecond(i, j),
                                ![c].tnow = now]
    /\ UNCHANGED <<kind, cfg, providers, currentIX, now, failAt, nrel, scoreObs, req, cin, cout>>

\* Provider.score of pi, first half: ewmaMS, penalty and unhealthyUntil are
\* read under the provider's mutex; in cooldown the score is +Inf at once.
P2CReadI(c) ==
    /\ cl[c].pc = "read_i"
    /\ LET p == providers[cl[c].i]
       IN  IF cl[c].tnow < p.unhealthyUntil
           THEN cl' = [cl EXCEPT ![c].si = score(p, cl[c].tnow, cfg.loadNormalizer),
                                 ![c].cool = @ \cup {cl[c].i},
                                 ![c].pc = "read_j"]
           ELSE cl' = [cl EXCEPT ![c].rd = p, ![c].pc = "load_i"]
    /\ UNCHANGED <<kind, cfg, providers, currentIX, now, failAt, nrel, nborrow, scoreObs, req, cin, cout>>

\* Provider.score of pi, second half: the atomic load of inFlight.
P2CLoadI(c) ==
    /\ cl[c].pc = "load_i"
    /\ LET p == [cl[c].rd EXCEPT !.inFlight = providers[cl[c].i].inFlight]
       IN  cl' = [cl EXCEPT ![c].si = score(p, cl[c].tnow, cfg.loadNormalizer),
                            ![c].rd = NewProvider, ![c].pc = "read_j"]
    /\ UNCHANGED <<kind, cfg, providers, currentIX, now, failAt, nrel, nborrow, scoreObs, req, cin, cout>>

\* Provider.score of pj, first half; in cooldown p2c returns at once.
P2CReadJ(c) ==
    /\ cl[c].pc = "read_j"
    /\ LET p == providers[cl[c].j]
           sj == score(p, cl[c].tnow, cfg.loadNormalizer)
       IN  IF cl[c].tnow < p.unhealthyUntil
           THEN cl' = [cl EXCEPT ![c].sj = sj, ![c].pc = "inc",
                                 ![c].cool = @ \cup {cl[c].j},
                                 ![c].held = p2cChoose(cl[c].i, cl[c].j, cl[c].si, sj)]
           ELSE cl' = [cl EXCEPT ![c].rd = p, ![c].pc = "load_j"]
    /\ UNCHANGED <<kind, cfg, providers, currentIX, now, failAt, nrel, nborrow, scoreObs, req, cin, cout>>

\* Provider.score of pj, second half, and the comparison that ends p2c.
P2CLoadJ(c) ==
    /\ cl[c].pc = "load_j"
    /\ LET p == [cl[c].rd EXCEPT !.inFlight = providers[cl[c].j].inFlight]
           sj == score(p, cl[c].tnow, cfg.loadNormalizer)
       IN  cl' = [cl EXCEPT ![c].sj = sj, ![c].rd = NewProvider, ![c].pc = "inc",
                            ![c].held = p2cChoose(cl[c].i, cl[c].j, cl[c].si, sj)]
    /\ UNCHANGED <<kind, cfg, providers, currentIX, now, failAt, nrel, nborrow, scoreObs, req, cin, cout>>

\* inFlightInc of the chosen provider; Borrow returns.
LBInc(c) ==
    /\ cl[c].pc = "inc"
    /\ providers' = [providers EXCEPT ![cl[c].held] = inFlightInc(@)]
    /\ cl' = [cl EXCEPT ![c] = [IdleCaller EXCEPT !.pc = "holding", !.held = cl[c].held]]
    /\ UNCHANGED <<kind, cfg, currentIX, now, failAt, nrel, nborrow, scoreObs, req, cin, cout>>

\* The release callback.  Round-robin and the empty balancers: a no-op.
\* Least-connection: inFlightDec.  P2C-EWMA: onRelease (under the mutex, which
\* reads the clock), inFlightDec being the next step.
LBRelease(c, ok, lat) ==
    /\ cl[c].pc = "holding"
    /\ LET h == cl[c].held
       IN  IF h = -1 \/ kind = RRName
           THEN /\ cl' = [cl EXCEPT ![c] = IdleCaller]
                /\ UNCHANGED <<providers, failAt>>
           ELSE IF kind = LCName
           THEN /\ providers' = [providers EXCEPT ![h] = inFlightDec(@)]
                /\ cl' = [cl EXCEPT ![c] = IdleCaller]
                /\ UNCHANGED failAt
           ELSE /\ providers' = [providers EXCEPT ![h] =
                        onRelease(@, ok, lat, cfg.smooth, cfg.penaltyDecay, cfg.cooldown, now)]
                /\ failAt' = IF ok THEN failAt ELSE [failAt EXCEPT ![h] = now]
                /\ cl' = [cl EXCEPT ![c].pc = "dec"]
    /\ UNCHANGED <<kind, cfg, currentIX, now, nrel, nborrow, scoreObs, req, cin, cout>>

\* P2C-EWMA release callback, second statement: inFlightDec.
LBDec(c) ==
    /\ cl[c].pc = "dec"
    /\ providers' = [providers EXCEPT ![cl[c].held] = inFlightDec(@)]
    /\ cl' = [cl EXCEPT ![c] = IdleCaller]
    /\ UNCHANGED <<kind, cfg, currentIX, now, failAt, nrel, nborrow, scoreObs, req, cin, cout>>

LBNext ==
    \/ \E c \in Callers : RRBorrow(c)
    \/ \E c \in Callers : LCBorrow(c)
    \/ \E c \in Callers : LCScan(c)
    \/ \E c \in Callers : P2CBorrow(c)
    \/ \E c \in Callers : P2CReadI(c)
    \/ \E c \in Callers : P2CLoadI(c)
    \/ \E c \in Callers : P2CReadJ(c)
    \/ \E c \in Callers : P2CLoadJ(c)
    \/ \E c \in Callers : LBInc(c)
    \/ \E c \in Callers, ok \in BOOLEAN, lat \in LBLatencies : LBRelease(c, ok, lat)
    \/ \E c \in Callers : LBDec(c)

SpecLB == LBInit /\ [][LBNext]_vars

(***************************************************************************)
(* Claims checked under SpecLB.                                            *)
(***************************************************************************)

\* The callers whose Borrow has returned provider p (its inFlightInc is done)
\* and whose release callback has not yet finished (its inFlightDec is not done).
Outstanding(p) == {c \in Callers : cl[c].pc \in {"holding", "dec"} /\ cl[c].held = p}

\* C2: for every provider of a least-connection or P2C-EWMA balancer, in every
\* state reachable by interleaving concurrent borrows and releases (each
\* release callback invoked at most once), inflight is >= 0 and equals the
\* number of borrows of that provider that have not been released.
C2_InFlight ==
    kind \in {LCName, P2CEWMAName} =>
        \A p \in DOMAIN providers :
            /\ providers[p].inFlight >= 0
            /\ providers[p].inFlight = Cardinality(Outstanding(p))

\* Two borrows of one provider outstanding, one of them inside its release.
C2_Witness ==
    \E p \in DOMAIN providers :
        /\ providers[p].inFlight = 2
        /\ \E c \in Callers : cl[c].pc = "dec" /\ cl[c].held = p

\* C8: a P2C-EWMA borrow over N >= 2 providers samples two indices i # j, both
\* in [0, N), and returns one of the two, whose score (as this borrow computed
\* it) is not greater than the other's (no score is greater than a NaN, nor a
\* NaN than any score); with N = 1 it returns the sole provider.
C8_TwoChoices ==
    \A c \in Callers :
        (kind = P2CEWMAName /\ cl[c].pc = "inc") =>
            IF NProviders >= 2
            THEN /\ cl[c].i # cl[c].j
                 /\ cl[c].i \in 0..(NProviders - 1)
                 /\ cl[c].j \in 0..(NProviders - 1)
                 /\ \/ cl[c].held = cl[c].i /\ ~RLess(cl[c].sj, cl[c].si)
                    \/ cl[c].held = cl[c].j /\ ~RLess(cl[c].si, cl[c].sj)
            ELSE cl[c].held = 0

\* A borrow that returns pi because its finite score is strictly the lower one.
C8_Witness ==
    \E c \in Callers :
        /\ kind = P2CEWMAName
        /\ cl[c].pc = "inc"
        /\ NProviders >= 2
        /\ RLess(cl[c].si, cl[c].sj)
        /\ ~IsInf(cl[c].sj)
        /\ cl[c].held = cl[c].i

(***************************************************************************)
(* The JSON-RPC error classifier (isUserCallError).  A message is a        *)
(* sequence of one-character strings.                                      *)
(***************************************************************************)
UpperLetters ==
    <<"A", "B", "C", "D", "E", "F", "G", "H", "I", "J", "K", "L", "M",
      "N", "O", "P", "Q", "R", "S", "T", "U", "V", "W", "X", "Y", "Z">>
LowerLetters ==
    <<"a", "b", "c", "d", "e", "f", "g", "h", "i", "j", "k", "l", "m",
      "n", "o", "p", "q", "r", "s", "t", "u", "v", "w", "x", "y", "z">>

\* strings.ToLower, on ASCII text.
ToLower(m) ==
    [k \in 1..Len(m) |->
        IF \E n \in 1..Len(UpperLetters) : UpperLetters[n] = m[k]
        THEN LowerLetters[CHOOSE n \in 1..Len(UpperLetters) : UpperLetters[n] = m[k]]
        ELSE m[k]]

\* strings.Contains.
Contains(m, sub) ==
    \E k \in 0..(Len(m) - Len(sub)) : SubSeq(m, k + 1, k + Len(sub)) = sub
BlockRangeLimitExceeded ==
    <<"b", "l", "o", "c", "k", " ", "r", "a", "n", "g", "e", " ", "l", "i",
      "m", "i", "t", " ", "e", "x", "c", "e", "e", "d", "e", "d">>
ExecutionReverted ==
    <<"e", "x", "e", "c", "u", "t", "i", "o", "n", " ", "r", "e", "v", "e",
      "r", "t", "e", "d">>
ReplacementTransactionUnderpriced ==
    <<"r", "e", "p", "l", "a", "c", "e", "m", "e", "n", "t", " ", "t", "r",
      "a", "n", "s", "a", "c", "t", "i", "o", "n", " ", "u", "n", "d", "e",
      "r", "p", "r", "i", "c", "e", "d">>

\* isUserCallError with the message of a -32000 error compared as it is.
isUserCallErrorExactCase(code, msg) ==
    IF code \in {-32003, -32004, -32006, -32010, -32600, -32700} THEN TRUE
    ELSE IF code = -32601 THEN TRUE
    ELSE IF code = -32602 THEN ~Contains(ToLower(msg), BlockRangeLimitExceeded)
    ELSE IF code = -32000
         THEN \/ Contains(msg, ExecutionReverted)
              \/ Contains(msg, ReplacementTransactionUnderpriced)
    ELSE FALSE

isUserCallError(code, msg) ==
    IF code \in {-32003, -32004, -32006, -32010, -32600, -32700} THEN TRUE
    ELSE IF code = -32601 THEN TRUE
    ELSE IF code = -32602
         THEN LET m == ToLower(msg)
              IN  IF Contains(m, BlockRangeLimitExceeded) THEN FALSE ELSE TRUE
    ELSE IF code = -32000
         THEN LET m == ToLower(msg)
              IN  IF \/ Contains(m, ExecutionReverted)
                     \/ Contains(m, ReplacementTransactionUnderpriced)
                  THEN TRUE ELSE FALSE
    ELSE FALSE

(***************************************************************************)
(* Classifier specification: the classifier applied to one (code, message) *)
(* drawn from the sample inputs.                                           *)
(***************************************************************************)
MsgEmpty ==
    <<>>
MsgInvalidAddress ==
    <<"i", "n", "v", "a", "l", "i", "d", " ", "a", "d", "d", "r", "e", "s",
      "s">>
MsgBlockRange ==
    <<"b", "l", "o", "c", "k", " ", "r", "a", "n", "g", "e", " ", "l", "i",
      "m", "i", "t", " ", "e", "x", "c", "e", "e", "d", "e", "d">>
MsgBlockRangeMixed ==
    <<"B", "l", "o", "c", "k", " ", "R", "a", "n", "g", "e", " ", "L", "i",
      "m", "i", "t", " ", "E", "x", "c", "e", "e", "d", "e", "d">>
MsgBlockRangeInside ==
    <<"e", "t", "h", "_", "g", "e", "t", "L", "o", "g", "s", ":", " ", "b",
      "l", "o", "c", "k", " ", "r", "a", "n", "g", "e", " ", "l", "i", "m",
      "i", "t", " ", "e", "x", "c", "e", "e", "d", "e", "d", " ", "(", "1",
      "0", "0", "0", ")">>
MsgBlockRangePrefix ==
    <<"b", "l", "o", "c", "k", " ", "r", "a", "n", "g", "e", " ", "l", "i",
      "m", "i", "t">>
MsgReverted ==
    <<"e", "x", "e", "c", "u", "t", "i", "o", "n", " ", "r", "e", "v", "e",
      "r", "t", "e", "d">>
MsgRevertedMixed ==
    <<"E", "x", "e", "c", "u", "t", "i", "o", "n", " ", "R", "e", "v", "e",
      "r", "t", "e", "d", ":", " ", "E", "R", "C", "2", "0">>
MsgRevertedSplit ==
    <<"e", "x", "e", "c", "u", "t", "i", "o", "n", " ", " ", "r", "e", "v",
      "e", "r", "t", "e", "d">>
MsgUnderpriced ==
    <<"r", "e", "p", "l", "a", "c", "e", "m", "e", "n", "t", " ", "t", "r",
      "a", "n", "s", "a", "c", "t", "i", "o", "n", " ", "u", "n", "d", "e",
      "r", "p", "r", "i", "c", "e", "d">>
MsgUnderpricedUpper ==
    <<"R", "E", "P", "L", "A", "C", "E", "M", "E", "N", "T", " ", "T", "R",
      "A", "N", "S", "A", "C", "T", "I", "O", "N", " ", "U", "N", "D", "E",
      "R", "P", "R", "I", "C", "E", "D">>
MsgHeaderNotFound ==
    <<"h", "e", "a", "d", "e", "r", " ", "n", "o", "t", " ", "f", "o", "u",
      "n", "d">>

SampleMessages ==
    { MsgEmpty, MsgInvalidAddress, MsgBlockRange, MsgBlockRangeMixed, MsgBlockRangeInside,
      MsgBlockRangePrefix, MsgReverted, MsgRevertedMixed, MsgRevertedSplit, MsgUnderpriced,
      MsgUnderpricedUpper, MsgHeaderNotFound }

SampleCodes ==
    { -32003, -32004, -32006, -32010, -32600, -32601, -32700, -32602, -32000,
      -32001, -32002, -32005, -32603, 0, 3, 32000 }

ClassifyInit ==
    /\ kind = RRName
    /\ cfg = DefaultCfg
    /\ providers = NewProviders(0)
    /\ currentIX = 0
    /\ now = 0
    /\ failAt = NewProviders(0)
    /\ nrel = 0
    /\ nborrow = 0
    /\ scoreObs = NoObs
    /\ cl = <<>>
    /\ req = <<>>
    /\ cin \in [code : SampleCodes, msg : SampleMessages]
    /\ cout = NoOutput

Classify ==
    /\ ~cout.done
    /\ cout' = [done |-> TRUE, user |-> isUserCallError(cin.code, cin.msg)]
    /\ UNCHANGED <<kind, cfg, providers, currentIX, now, failAt, nrel, nborrow, scoreObs, cl, req, cin>>

ClassifyNext == Classify

SpecClassify == ClassifyInit /\ [][ClassifyNext]_vars

(***************************************************************************)
(* Claims checked under SpecClassify.                                      *)
(***************************************************************************)

\* The sample messages that hold each phrase, in any letter case and in
\* exactly the lower case the phrase is written in.
HoldBlockRangeAnyCase == {MsgBlockRange, MsgBlockRangeMixed, MsgBlockRangeInside}
HoldRevertedAnyCase == {MsgReverted, MsgRevertedMixed}
HoldRevertedExactCase == {MsgReverted}
HoldUnderpricedAnyCase == {MsgUnderpriced, MsgUnderpricedUpper}
HoldUnderpricedExactCase == {MsgUnderpriced}

AlwaysCallerCodes == {-32003, -32004, -32006, -32010, -32600, -32601, -32700}

\* C5 as stated: -32000 is a provider error unless the message contains
\* "execution reverted" or "replacement transaction underpriced" as written.
C5_TableAsStated ==
    cout.done =>
        cout.user =
            IF cin.code \in AlwaysCallerCodes THEN TRUE
            ELSE IF cin.code = -32602 THEN cin.msg \notin HoldBlockRangeAnyCase
            ELSE IF cin.code = -32000
                 THEN cin.msg \in HoldRevertedExactCase \cup HoldUnderpricedExactCase
            ELSE FALSE

\* C5 (amended): the classifier is a function of (code, message) that agrees
\* with the table: -32003, -32004, -32006, -32010, -32600, -32601, -32700 are
\* caller errors; -32602 is a caller error unless the message contains, in any
\* letter case, "block range limit exceeded"; -32000 is a provider error
\* unless the message contains, in any letter case, "execution reverted" or
\* "replacement transaction underpriced"; every other code is a provider error.
C5_Table ==
    cout.done =>
        cout.user =
            IF cin.code \in AlwaysCallerCodes THEN TRUE
            ELSE IF cin.code = -32602 THEN cin.msg \notin HoldBlockRangeAnyCase
            ELSE IF cin.code = -32000
                 THEN cin.msg \in HoldRevertedAnyCase \cup HoldUnderpricedAnyCase
            ELSE FALSE

\* A -32000 error whose message holds the phrase in another letter case,
\* classified as a caller error.
C5_Witness ==
    /\ cout.done
    /\ cout.user
    /\ cin.code = -32000
    /\ cin.msg = MsgRevertedMixed

(***************************************************************************)
(* The HTTP pipeline: loadBalancerMiddleware around the parser middleware  *)
(* and the handler, under recoverHandler.  One goroutine serves each       *)
(* request; inside Borrow and the release callback it takes the steps of   *)
(* the balancer-level specification, and it reads the clock where the code *)
(* does.                                                                   *)
(***************************************************************************)
StatusOK == 200
StatusInternalServerError == 500

\* The requests inside the pipeline at one time: one per caller.
Slots == Callers

\* Chain parameters of the pipeline specification: a cooldown of 2 ticks.
PipelineCfg ==
    [smooth |-> <<1, 2>>, loadNormalizer |-> <<2, 1>>, penaltyDecay |-> <<1, 2>>, cooldown |-> 2]

\* The parameters a P2C-EWMA chain of the pipeline is built with: validated
\* ones, or the zero value.
PipelineCfgs == {PipelineCfg, ZeroP2CEWMA}

\* JSONRPCError values: the zero value and errors an upstream sends.
NoError == [code |-> 0, msg |-> MsgEmpty]
ErrInvalidAddress == [code |-> -32602, msg |-> MsgInvalidAddress]
ErrBlockRange == [code |-> -32602, msg |-> MsgBlockRange]
ErrRevertedMixed == [code |-> -32000, msg |-> MsgRevertedMixed]
ErrHeaderNotFound == [code |-> -32000, msg |-> MsgHeaderNotFound]

\* JSONRPCResponse.HasError, a response being its Error field.
HasError(resp) == resp # NoError

\* Response bodies: text that is no JSON, one JSON object, a JSON array.
BodyInvalid == [shape |-> "invalid", items |-> <<>>]
BodyObject(e) == [shape |-> "object", items |-> <<e>>]
BodyArray(es) == [shape |-> "array", items |-> es]

UpstreamBodies ==
    { BodyInvalid,
      BodyObject(NoError), BodyObject(ErrInvalidAddress), BodyObject(ErrBlockRange),
      BodyObject(ErrRevertedMixed), BodyObject(ErrHeaderNotFound),
      BodyArray(<<>>), BodyArray(<<NoError, ErrInvalidAddress>>),
      BodyArray(<<ErrInvalidAddress, ErrBlockRange>>) }

\* What an upstream answers: a status and a body.
UpstreamResponses ==
    [status : {StatusOK}, body : UpstreamBodies]
        \cup [status : {204, 503}, body : {BodyObject(NoError)}]
        \cup {[status |-> 503, body |-> BodyInvalid]}

\* isUserCallError tabulated over the errors of the upstream bodies.
UpstreamErrors == {NoError, ErrInvalidAddress, ErrBlockRange, ErrRevertedMixed, ErrHeaderNotFound}
userCallError == [e \in UpstreamErrors |-> isUserCallError(e.code, e.msg)]

\* What next(ctx) can come to: a panic, cli.Do failing, io.Copy failing, or
\* the upstream's response copied to ctx.
Outcomes == {"panic", "doErr", "copyErr", "resp"}

\* Server.handler: the status and body of ctx.Response when it returns.  On
\* a failure the status is never set and StatusCode() gives the default.
handler(outcome, status, body) ==
    IF outcome = "resp"
    THEN [status |-> status, body |-> body]
    ELSE [status |-> StatusOK, body |-> BodyInvalid]

\* requestResponseParserMiddleware, after next(ctx): rc.Response.
parseResponse(isBatched, body) ==
    IF isBatched
    THEN IF body.shape = "array" THEN body.items ELSE <<>>
    ELSE IF body.shape = "object" THEN body.items ELSE <<NoError>>

\* loadBalancerMiddleware: the ok flag handed to release.
releaseOk(status, response) ==
    LET ok == status = StatusOK
        okLen == IF Len(response) = 0 THEN FALSE ELSE ok
    IN  IF \E k \in 1..Len(response) :
              /\ HasError(response[k])
              /\ ~userCallError[response[k]]
        THEN FALSE
        ELSE okLen

\* pickLeast: the scan from index k on.
RECURSIVE pickLeastFrom(_, _, _)
pickLeastFrom(min, minInFlight, k) ==
    IF k = NProviders
    THEN min
    ELSE LET m == pickLeastStep(min, minInFlight, k, providers[k].inFlight)
         IN  pickLeastFrom(m[1], m[2], k + 1)

\* The providers Borrow can return in the current state.
BorrowPicks ==
    IF kind = RRName THEN {currentIX}
    ELSE IF NProviders = 1 THEN {0}
    ELSE IF kind = LCName
    THEN {pickLeastFrom(seed, providers[seed].inFlight, 0) : seed \in DOMAIN providers}
    ELSE {p2cChoose(i, p2cSecond(i, j), score(providers[i], now, cfg.loadNormalizer),
                    score(providers[p2cSecond(i, j)], now, cfg.loadNormalizer)) :
              i \in 0..(NProviders - 1), j \in 0..(NProviders - 2)}

\* A request slot: where its goroutine is in loadBalancerMiddleware, the
\* provider borrowed, start, and the ok flag and latency computed for the
\* release; perr tells that the parsed response carries a
\* provider-classified error, released counts the calls of the release
\* callback.
IdleSlot ==
    [pc |-> "idle", provider |-> -1, start |-> -1, ok |-> FALSE, latency |-> 0,
     perr |-> FALSE, released |-> 0]

\* The record of what the latest step did to a request, until the next
\* step: "completed" when next(ctx) has returned and ok is computed,
\* "released" when the release callback has updated the provider, "served"
\* when the request has left loadBalancerMiddleware.
NoLast ==
    [op |-> "none", provider |-> -1, before |-> NewProvider, outcome |-> "resp",
     isBatched |-> FALSE, status |-> StatusOK, response |-> <<>>, released |-> 0,
     ok |-> FALSE, latency |-> 0, at |-> -1]

\* The sample errors the classifier attributes to the provider.
ProviderClassified == {ErrBlockRange, ErrHeaderNotFound}

Init ==
    /\ kind \in {P2CEWMAName, RRName, LCName, ""}
    /\ cfg \in (IF kind = P2CEWMAName THEN PipelineCfgs ELSE {PipelineCfg})
    /\ \E n \in 1..MaxProviders :
          /\ providers = NewProviders(n)
          /\ failAt = [i \in 0..(n - 1) |-> -1]
    /\ currentIX = 0
    /\ now = 0
    /\ nrel = 0
    /\ nborrow = 0
    /\ scoreObs = NoObs
    /\ cl = [c \in Callers |-> IdleCaller]
    /\ req = [slots |-> [r \in Slots |-> IdleSlot], last |-> NoLast]
    /\ cin = NoInput
    /\ cout = NoOutput

Tick ==
    /\ req.last.op = "none"
    /\ now < MaxTime
    /\ now' = now + 1
    /\ UNCHANGED <<kind, cfg, providers, currentIX, failAt, nrel, nborrow, scoreObs, cl, req, cin, cout>>

\* The requests that have looked their balancer up and not yet called
\* Borrow.
AboutToBorrow == {q \in Slots : req.slots[q].pc = "borrow" /\ cl[q].pc = "idle"}

\* loadBalancerMiddleware up to lb.Borrow(): the balancer of the path is
\* looked up; with none registered the request is answered 500 and nothing
\* is borrowed.  Requests take the lowest free slot.
Lookup(r) ==
    /\ req.last.op = "none"
    /\ req.slots[r].pc = "idle"
    /\ \A q \in Slots : q < r => req.slots[q].pc # "idle"
    /\ IF balancerRegistered([BalancerType |-> kind])
       THEN /\ nborrow + Cardinality(AboutToBorrow) < MaxBorrows
            /\ req' = [req EXCEPT !.slots[r].pc = "borrow"]
       ELSE req' = [req EXCEPT !.last = [NoLast EXCEPT !.op = "served",
                                                       !.status = StatusInternalServerError,
                                                       !.at = now]]
    /\ UNCHANGED <<kind, cfg, providers, currentIX, now, failAt, nrel, nborrow, scoreObs, cl, cin, cout>>

\* lb.Borrow(): the steps of the balancer's Borrow, taken by the request's
\* goroutine.
Borrow(r) ==
    /\ req.last.op = "none"
    /\ req.slots[r].pc = "borrow"
    /\ \/ RRBorrow(r)
       \/ LCBorrow(r)
       \/ LCScan(r)
       \/ P2CBorrow(r)
       \/ P2CReadI(r)
       \/ P2CLoadI(r)
       \/ P2CReadJ(r)
       \/ P2CLoadJ(r)
       \/ LBInc(r)

\* Borrow has returned: SetToReqCtx and start := time.Now(); next(ctx) is
\* called.
Start(r) ==
    /\ req.last.op = "none"
    /\ req.slots[r].pc = "borrow"
    /\ cl[r].pc = "holding"
    /\ req' = [req EXCEPT !.slots[r] = [IdleSlot EXCEPT !.pc = "forwarding",
                                                        !.provider = cl[r].held,
                                                        !.start = now]]
    /\ UNCHANGED <<kind, cfg, providers, currentIX, now, failAt, nrel, nborrow, scoreObs, cl, cin, cout>>

\* next(ctx) panics: the panic unwinds through loadBalancerMiddleware, whose
\* release call is a plain statement after next(ctx), and recoverHandler
\* answers 500.  The release callback is dropped with the goroutine's frame.
Panic(r) ==
    /\ req.last.op = "none"
    /\ req.slots[r].pc = "forwarding"
    /\ cl' = [cl EXCEPT ![r] = IdleCaller]
    /\ req' = [req EXCEPT !.slots[r] = IdleSlot,
                          !.last = [NoLast EXCEPT !.op = "served",
                                                  !.provider = req.slots[r].provider,
                                                  !.before = providers[req.slots[r].provider],
                                                  !.outcome = "panic",
                                                  !.status = StatusInternalServerError,
                                                  !.latency = now - req.slots[r].start,
                                                  !.at = now]]
    /\ UNCHANGED <<kind, cfg, providers, currentIX, now, failAt, nrel, nborrow, scoreObs, cin, cout>>

\* next(ctx) returns: the handler's result, the parser's rc.Response, then
\* loadBalancerMiddleware's latency := time.Since(start) and its ok flag.
Complete(r, outcome, isBatched, up) ==
    /\ req.last.op = "none"
    /\ req.slots[r].pc = "forwarding"
    /\ outcome # "panic"
    /\ outcome # "resp" => up = [status |-> StatusOK, body |-> BodyInvalid]
    /\ LET p == req.slots[r].provider
           res == handler(outcome, up.status, up.body)
           response == parseResponse(isBatched, res.body)
           latency == now - req.slots[r].start
           ok == releaseOk(res.status, response)
           perr == \E k \in 1..Len(response) : response[k] \in ProviderClassified
       IN  req' = [req EXCEPT !.slots[r] = [@ EXCEPT !.pc = "release", !.ok = ok,
                                                     !.latency = latency, !.perr = perr],
                              !.last = [NoLast EXCEPT !.op = "completed", !.provider = p,
                                                      !.before = providers[p],
                                                      !.outcome = outcome,
                                                      !.isBatched = isBatched,
                                                      !.status = res.status,
                                                      !.response = response,
                                                      !.ok = ok, !.latency = latency,
                                                      !.at = now]]
    /\ UNCHANGED <<kind, cfg, providers, currentIX, now, failAt, nrel, nborrow, scoreObs, cl, cin, cout>>

\* release(ok, latency).  Round-robin: a no-op.  Least-connection:
\* inFlightDec.  P2C-EWMA: onRelease, which reads the clock under the
\* provider's mutex; its inFlightDec is the next step.
Release(r) ==
    /\ req.last.op = "none"
    /\ req.slots[r].pc = "release"
    /\ cl[r].pc = "holding"
    /\ LET p == req.slots[r].provider
           ok == req.slots[r].ok
       IN  /\ providers' =
                 IF kind = RRName THEN providers
                 ELSE IF kind = LCName THEN [providers EXCEPT ![p] = inFlightDec(@)]
                 ELSE [providers EXCEPT ![p] =
                          onRelease(@, ok, req.slots[r].latency, cfg.smooth,
                                    cfg.penaltyDecay, cfg.cooldown, now)]
           /\ failAt' = IF kind = P2CEWMAName /\ ~ok THEN [failAt EXCEPT ![p] = now] ELSE failAt
           /\ cl' = IF kind = P2CEWMAName THEN [cl EXCEPT ![r].pc = "dec"]
                    ELSE [cl EXCEPT ![r] = IdleCaller]
           /\ req' = [req EXCEPT !.slots[r].released = @ + 1,
                                 !.last = [NoLast EXCEPT !.op = "released", !.provider = p,
                                                         !.before = providers[p],
                                                         !.released = req.slots[r].released + 1,
                                                         !.ok = ok,
                                                         !.latency = req.slots[r].latency,
                                                         !.at = now]]
    /\ UNCHANGED <<kind, cfg, currentIX, now, nrel, nborrow, scoreObs, cin, cout>>

\* P2C-EWMA release callback, second statement: inFlightDec.
Dec(r) ==
    /\ req.last.op = "none"
    /\ req.slots[r].pc = "release"
    /\ LBDec(r)

\* The release callback has returned and loadBalancerMiddleware returns.
Finish(r) ==
    /\ req.last.op = "none"
    /\ req.slots[r].pc = "release"
    /\ req.slots[r].released > 0
    /\ cl[r].pc = "idle"
    /\ req' = [req EXCEPT !.slots[r] = IdleSlot,
                          !.last = [NoLast EXCEPT !.op = "served",
                                                  !.provider = req.slots[r].provider,
                                                  !.before = providers[req.slots[r].provider],
                                                  !.released = req.slots[r].released,
                                                  !.ok = req.slots[r].ok,
                                                  !.latency = req.slots[r].latency,
                                                  !.at = now]]
    /\ UNCHANGED <<kind, cfg, providers, currentIX, now, failAt, nrel, nborrow, scoreObs, cl, cin, cout>>

\* The record of the latest step is dropped.  The step touches nothing
\* another step reads, so it is taken before any other.
Return ==
    /\ req.last.op # "none"
    /\ req' = [req EXCEPT !.last = NoLast]
    /\ UNCHANGED <<kind, cfg, providers, currentIX, now, failAt, nrel, nborrow, scoreObs, cl, cin, cout>>

Next ==
    \/ Tick
    \/ Return
    \/ \E r \in Slots : Lookup(r)
    \/ \E r \in Slots : Borrow(r)
    \/ \E r \in Slots : Start(r)
    \/ \E r \in Slots : Panic(r)
    \/ \E r \in Slots, outcome \in Outcomes, isBatched \in BOOLEAN, up \in UpstreamResponses :
          Complete(r, outcome, isBatched, up)
    \/ \E r \in Slots : Release(r)
    \/ \E r \in Slots : Dec(r)
    \/ \E r \in Slots : Finish(r)

Spec == Init /\ [][Next]_vars

(***************************************************************************)
(* Claims checked under Spec.                                              *)
(***************************************************************************)

\* C1: every request that borrowed a provider has had the release callback of
\* that borrow invoked exactly once when it terminates, whether the inner
\* stages returned or panicked.
C1_ReleasedOnce ==
    (req.last.op = "served" /\ req.last.provider # -1) => req.last.released = 1

\* C3: a request, single or batch, whose upstream call failed at transport
\* level (cli.Do or io.Copy returned an error) hands ok = false to release.
C3_TransportFailureNotOk ==
    (req.last.op = "completed" /\ req.last.outcome \in {"doErr", "copyErr"})
        => ~req.last.ok

\* C4: the ok flag handed to release is false exactly when the upstream call
\* failed at transport level or answered a non-2xx status, or no response was
\* parsed, or a parsed response carries a provider-classified error.
C4_OkFlag ==
    req.last.op = "completed"
        => (~req.last.ok <=>
               \/ req.last.outcome \in {"doErr", "copyErr"}
               \/ req.last.status \notin 200..299
               \/ Len(req.last.response) = 0
               \/ \E k \in 1..Len(req.last.response) :
                     req.last.response[k] \in ProviderClassified)

\* A Borrow of a two-provider P2C-EWMA chain that read the clock inside the
\* cooldown started by the latest failed release on provider a, the other
\* provider being in no cooldown, returns the other provider.
C6_BorrowAvoidsCooldown ==
    \A c \in Callers :
        (/\ kind = P2CEWMAName
         /\ NProviders = 2
         /\ cl[c].pc = "inc")
        => \A a \in {0, 1} :
              (/\ failAt[a] # -1
               /\ failAt[a] < cl[c].tnow
               /\ cl[c].tnow < failAt[a] + cfg.cooldown
               /\ ~(cl[c].tnow < providers[1 - a].unhealthyUntil))
              => cl[c].held = 1 - a

\* From the end of the cooldown on the provider's score is finite.
C6_FiniteAfterCooldown ==
    (kind = P2CEWMAName /\ NProviders = 2)
        => \A a \in {0, 1} :
              (failAt[a] # -1 /\ now >= failAt[a] + cfg.cooldown)
              => LET sc == score(providers[a], now, cfg.loadNormalizer)
                 IN  ~IsInf(sc) /\ ~IsNaN(sc)

\* C6: in a P2C-EWMA chain with providers A and B and cooldown T, after
\* release(ok=false) on A at time t and while B is not in cooldown, every
\* borrow at a time in [t, t+T) returns B; at any time >= t+T the score of A
\* is finite again.
C6_Cooldown == C6_BorrowAvoidsCooldown /\ C6_FiniteAfterCooldown

\* C9: a release with ok = false on a P2C-EWMA provider, whatever the state the
\* provider was in, leaves penalty at exactly 1/2 and unhealthyUntil at the
\* time of the release plus the cooldown; a request whose parsed response
\* carries a provider-classified error is released that way.
C9_FailedRelease ==
    /\ (/\ kind = P2CEWMAName
        /\ req.last.op = "released"
        /\ ~req.last.ok)
       => /\ providers[req.last.provider].penalty = <<1, 2>>
          /\ providers[req.last.provider].unhealthyUntil = req.last.at + cfg.cooldown
    /\ (/\ req.last.op = "completed"
        /\ \E k \in 1..Len(req.last.response) : req.last.response[k] \in ProviderClassified)
       => ~req.last.ok
    /\ \A r \in Slots :
          (req.slots[r].pc = "release" /\ req.slots[r].perr) => ~req.slots[r].ok

\* A provider holding a penalty and an earlier cooldown is released on a
\* response that carries a provider-classified error.
C9_Witness ==
    /\ kind = P2CEWMAName
    /\ req.last.op = "released"
    /\ ~req.last.ok
    /\ \E r \in Slots :
          /\ req.slots[r].pc = "release"
          /\ req.slots[r].released = 1
          /\ req.slots[r].provider = req.last.provider
          /\ req.slots[r].perr
          /\ cl[r].pc = "dec"
    /\ req.last.before.penalty # <<0, 1>>
    /\ req.last.before.unhealthyUntil > 0
    /\ req.last.before.unhealthyUntil < req.last.at + cfg.cooldown
    /\ providers[req.last.provider].penalty = <<1, 2>>

(***************************************************************************)
(* float64 arithmetic, for the claims that turn on rounding.  A natural    *)
(* number is its sequence of digits in base 2^12, lowest first, the        *)
(* highest being nonzero (zero is the empty sequence).  A dyadic number    *)
(* [m, e] is m * 2^e; a float64 is a dyadic number with an odd m of at     *)
(* most 53 bits, or zero.  Values stay far from the subnormal and overflow *)
(* ranges.                                                                 *)
(***************************************************************************)
MantissaBits == 53
Pow2 == <<1, 2, 4, 8, 16, 32, 64, 128, 256, 512, 1024, 2048, 4096>>
LimbBits == Len(Pow2) - 1
LimbBase == Pow2[Len(Pow2)]

NMax(x, y) == IF x < y THEN y ELSE x
NMin(x, y) == IF x < y THEN x ELSE y

\* a without its high zero digits.
NTrim(a) ==
    IF \A k \in 1..Len(a) : a[k] = 0 THEN <<>>
    ELSE SubSeq(a, 1, CHOOSE n \in 1..Len(a) : a[n] # 0 /\ \A k \in (n + 1)..Len(a) : a[k] = 0)

NLimb(a, k) == IF 1 <= k /\ k <= Len(a) THEN a[k] ELSE 0

\* The digits of the number whose digit k is s[k], any integer, carries (and
\* borrows) being passed upwards; the number is not negative.
RECURSIVE NCarryFrom(_, _, _)
NCarryFrom(s, k, c) ==
    IF k > Len(s)
    THEN (IF c = 0 THEN <<>> ELSE <<c % LimbBase>> \o NCarryFrom(s, k + 1, c \div LimbBase))
    ELSE LET t == s[k] + c
         IN  <<t % LimbBase>> \o NCarryFrom(s, k + 1, t \div LimbBase)

NCarry(s) == NTrim(NCarryFrom(s, 1, 0))

NOfNat(n) == NCarry(<<n>>)

NAdd(a, b) == NCarry([k \in 1..NMax(Len(a), Len(b)) |-> NLimb(a, k) + NLimb(b, k)])

\* a - b, for a >= b.
NSub(a, b) == NCarry([k \in 1..Len(a) |-> a[k] - NLimb(b, k)])

\* a * d, for d up to the base.
NMulSmall(a, d) == NCarry([k \in 1..Len(a) |-> a[k] * d])

NShlLimbs(a, k) == IF a = <<>> THEN <<>> ELSE [i \in 1..k |-> 0] \o a

\* a * b, for a of at most five digits (a float64 mantissa).
NMul(a, b) ==
    NCarry([k \in 1..(Len(a) + Len(b)) |->
               NLimb(a, 1) * NLimb(b, k) + NLimb(a, 2) * NLimb(b, k - 1)
                   + NLimb(a, 3) * NLimb(b, k - 2) + NLimb(a, 4) * NLimb(b, k - 3)
                   + NLimb(a, 5) * NLimb(b, k - 4)])

\* a * 2^k and the integer part of a / 2^k.
NShl(a, k) == NShlLimbs(NMulSmall(a, Pow2[(k % LimbBits) + 1]), k \div LimbBits)
NShr(a, k) ==
    LET q == k \div LimbBits
        r == k % LimbBits
    IN  NTrim([j \in 1..(Len(a) - q) |->
                  (a[j + q] \div Pow2[r + 1])
                      + (NLimb(a, j + q + 1) % Pow2[r + 1]) * Pow2[LimbBits - r + 1]])

NLess(a, b) ==
    IF Len(a) # Len(b) THEN Len(a) < Len(b)
    ELSE \E k \in 1..Len(a) :
            /\ a[k] < b[k]
            /\ \A j \in (k + 1)..Len(a) : a[j] = b[j]

\* Bit k of a, the lowest being bit 1; the number of bits of a; the number
\* of low zero bits of a nonzero a.
NBit(a, k) == (NLimb(a, ((k - 1) \div LimbBits) + 1) \div Pow2[((k - 1) % LimbBits) + 1]) % 2
NBitLen(a) ==
    IF a = <<>> THEN 0
    ELSE (Len(a) - 1) * LimbBits + (CHOOSE n \in 1..LimbBits : Pow2[n] <= a[Len(a)] /\ a[Len(a)] < Pow2[n + 1])
NLowZeros(a) ==
    (CHOOSE k \in 1..NBitLen(a) : NBit(a, k) = 1 /\ \A j \in 1..(k - 1) : NBit(a, j) = 0) - 1

\* [m, e] with the low zero bits of m moved into e.
DNorm(m, e) ==
    IF m = <<>> THEN [m |-> <<>>, e |-> 0]
    ELSE LET z == NLowZeros(m) IN [m |-> NShr(m, z), e |-> e + z]

DZero == [m |-> <<>>, e |-> 0]
DOfNat(n) == DNorm(NOfNat(n), 0)

\* Exact order and distance of dyadic numbers; x * 2^k.
DLess(x, y) ==
    LET e == NMin(x.e, y.e)
    IN  NLess(NShl(x.m, x.e - e), NShl(y.m, y.e - e))
DAbsDiff(x, y) ==
    LET e == NMin(x.e, y.e)
        a == NShl(x.m, x.e - e)
        b == NShl(y.m, y.e - e)
    IN  IF NLess(a, b) THEN DNorm(NSub(b, a), e) ELSE DNorm(NSub(a, b), e)
DScale(x, k) == IF x.m = <<>> THEN x ELSE [m |-> x.m, e |-> x.e + k]

\* The exact product x * y, for x with a mantissa of at most 53 bits, and
\* the greater of x and y.
DMul(x, y) == DNorm(NMul(x.m, y.m), x.e + y.e)
DMax(x, y) == IF DLess(x, y) THEN y ELSE x

\* Rounding to float64: to the nearest, ties to the even mantissa.
FRound(m, e) ==
    IF NBitLen(m) <= MantissaBits THEN DNorm(m, e)
    ELSE LET d == NBitLen(m) - MantissaBits
             kept == NShr(m, d)
             sticky == \E k \in 1..(d - 1) : NBit(m, k) = 1
             up == NBit(m, d) = 1 /\ (sticky \/ NBit(kept, 1) = 1)
         IN  DNorm(IF up THEN NAdd(kept, <<1>>) ELSE kept, e + d)

\* float64 product, sum and difference (x >= y).
FMul(x, y) == FRound(NMul(x.m, y.m), x.e + y.e)
FAdd(x, y) ==
    LET e == NMin(x.e, y.e)
    IN  FRound(NAdd(NShl(x.m, x.e - e), NShl(y.m, y.e - e)), e)
FSub(x, y) ==
    LET e == NMin(x.e, y.e)
    IN  FRound(NSub(NShl(x.m, x.e - e), NShl(y.m, y.e - e)), e)

\* float64(n) for an int64 n below 2^31.
FOfInt(n) == DOfNat(n)

\* The float64 m * 2^e, m written in hexadecimal digits, highest first.
NOfHex(h) ==
    LET d(p) == IF p < Len(h) THEN h[Len(h) - p] ELSE 0
    IN  NTrim([k \in 1..((Len(h) + 2) \div 3) |->
                  d(3 * k - 3) + 16 * d(3 * k - 2) + 256 * d(3 * k - 1)])
FOfHex(h, e) == DNorm(NOfHex(h), e)

(***************************************************************************)
(* Float specification: one P2C-EWMA provider with ewmaMS and penalty held *)
(* as float64, released again and again with one latency and then once     *)
(* with another.  The other specifications carry the real-number values of *)
(* these fields.                                                           *)
(***************************************************************************)
Float03 == FOfHex(<<1, 3, 3, 3, 3, 3, 3, 3, 3, 3, 3, 3, 3, 3>>, -54)      \* 0.3
Float01 == FOfHex(<<1, 9, 9, 9, 9, 9, 9, 9, 9, 9, 9, 9, 9, 10>>, -56)     \* 0.1
Float08 == FOfHex(<<1, 9, 9, 9, 9, 9, 9, 9, 9, 9, 9, 9, 9, 10>>, -53)     \* 0.8
Float005 == FOfHex(<<1, 9, 9, 9, 9, 9, 9, 9, 9, 9, 9, 9, 9, 10>>, -57)    \* 0.05
Float001 == FOfHex(<<1, 4, 7, 10, 14, 1, 4, 7, 10, 14, 1, 4, 7, 11>>, -59) \* 0.01
FloatTiny == [m |-> <<1>>, e |-> -60]                                      \* 2^-60
FloatHalf == [m |-> <<1>>, e |-> -1]                                       \* 0.5
FloatOne == FOfInt(1)

penaltyValue64 == FloatHalf
penaltyLostValue64 == Float005

NewProvider64 == [ewmaMS |-> DZero, penalty |-> DZero, unhealthyUntil |-> 0, inFlight |-> 0]

\* onRelease64 without the first-sample branch.
onRelease64NoFirstSample(p, ok, lat, alpha, penaltyDecay, cooldown, tnow) ==
    LET ms == FOfInt(Milliseconds(lat))
        ewma == FAdd(FMul(FSub(FloatOne, alpha), p.ewmaMS), FMul(ms, alpha))
        decayed == FMul(p.penalty, penaltyDecay)
    IN  IF ~ok
        THEN [p EXCEPT !.ewmaMS = ewma, !.penalty = penaltyValue64,
                       !.unhealthyUntil = tnow + cooldown]
        ELSE [p EXCEPT !.ewmaMS = ewma,
                       !.penalty = IF DLess(decayed, penaltyLostValue64) THEN DZero ELSE decayed]

\* Provider.onRelease, in float64.
onRelease64(p, ok, lat, alpha, penaltyDecay, cooldown, tnow) ==
    LET ms == FOfInt(Milliseconds(lat))
        first == IF p.ewmaMS = DZero THEN ms ELSE p.ewmaMS
        ewma == FAdd(FMul(FSub(FloatOne, alpha), first), FMul(ms, alpha))
        decayed == FMul(p.penalty, penaltyDecay)
    IN  IF ~ok
        THEN [p EXCEPT !.ewmaMS = ewma, !.penalty = penaltyValue64,
                       !.unhealthyUntil = tnow + cooldown]
        ELSE [p EXCEPT !.ewmaMS = ewma,
                       !.penalty = IF DLess(decayed, penaltyLostValue64) THEN DZero ELSE decayed]

\* smooth values in (0, 1]: the default 0.3, values whose products round
\* (0.1, 0.01), values whose products are exact (0.5, 1), and one so small
\* that 1 - smooth rounds to 1; latencies of 0, 1, 3, 13, 41 and 75 ms, and
\* one of 3 ms and a part.
FloatSmooths == {Float03, Float01, Float001, FloatTiny, FloatHalf, FloatOne}
FloatLatencies ==
    {0, TicksPerMs, 3 * TicksPerMs, 3 * TicksPerMs + 1, 13 * TicksPerMs, 41 * TicksPerMs,
     75 * TicksPerMs}

\* cin is the smooth value and the two latencies; cout the releases made so
\* far, ewmaMS before the latest and whether the latest used the other latency.
FloatInit ==
    /\ kind = P2CEWMAName
    /\ cfg = DefaultCfg
    /\ providers = [i \in {0} |-> NewProvider64]
    /\ currentIX = 0
    /\ now = 0
    /\ failAt = [i \in {0} |-> -1]
    /\ nrel = 0
    /\ nborrow = 0
    /\ scoreObs = NoObs
    /\ cl = <<>>
    /\ req = <<>>
    /\ cin \in [alpha : FloatSmooths, lat : FloatLatencies, other : FloatLatencies]
    /\ cout = [prev |-> DZero, other |-> FALSE]

\* A release with the latency of the behaviour.
FloatRelease(ok) ==
    /\ ~cout.other
    /\ nrel < MaxFloatReleases
    /\ nrel' = nrel + 1
    /\ providers' = [providers EXCEPT ![0] =
            onRelease64(@, ok, cin.lat, cin.alpha, Float08, cfg.cooldown, now)]
    /\ cout' = [prev |-> providers[0].ewmaMS, other |-> FALSE]
    /\ UNCHANGED <<kind, cfg, currentIX, now, failAt, nborrow, scoreObs, cl, req, cin>>

\* A release with the other latency, after which the behaviour ends.
FloatReleaseOther(ok) ==
    /\ ~cout.other
    /\ nrel >= 1
    /\ nrel' = nrel + 1
    /\ Milliseconds(cin.other) # Milliseconds(cin.lat)
    /\ providers' = [providers EXCEPT ![0] =
            onRelease64(@, ok, cin.other, cin.alpha, Float08, cfg.cooldown, now)]
    /\ cout' = [prev |-> providers[0].ewmaMS, other |-> TRUE]
    /\ UNCHANGED <<kind, cfg, currentIX, now, failAt, nborrow, scoreObs, cl, req, cin>>

FloatNext ==
    \/ \E ok \in BOOLEAN : FloatRelease(ok)
    \/ \E ok \in BOOLEAN : FloatReleaseOther(ok)

SpecFloat == FloatInit /\ [][FloatNext]_vars

(***************************************************************************)
(* Claims checked under SpecFloat.                                         *)
(***************************************************************************)

\* C11 as stated: the first release with latency L sets ewmaMS to exactly L,
\* further releases with L leave it equal to L, and a release with another
\* latency moves it strictly towards that latency.
C11_ExactlyL ==
    /\ (nrel >= 1 /\ ~cout.other)
       => providers[0].ewmaMS = FOfInt(Milliseconds(cin.lat))
    /\ cout.other
       => DLess(DAbsDiff(providers[0].ewmaMS, FOfInt(Milliseconds(cin.other))),
                DAbsDiff(cout.prev, FOfInt(Milliseconds(cin.other))))

\* C11 (amended): the first release with latency L ms leaves ewmaMS within
\* 3 * L * 2^-53 of L (the roundings of 1 - smooth, of the two products and
\* of the sum), every further release with L leaves it within
\* L * 2^-50 / smooth of L (the rounding errors of the releases add up in
\* proportion to 1 / smooth), and ewmaMS is exactly L throughout when smooth
\* is 1/2 or 1, where nothing is rounded; a release with another latency M
\* moves ewmaMS strictly towards M whenever the step smooth * |M - ewmaMS|
\* is above the rounding error 3 * 2^-53 * max(ewmaMS, M).
C11_RoundingBound ==
    LET L == FOfInt(Milliseconds(cin.lat))
        M == FOfInt(Milliseconds(cin.other))
        ewma == providers[0].ewmaMS
    IN  /\ (nrel >= 1 /\ ~cout.other)
           => /\ nrel = 1
                    => ~DLess(DScale(DMul(DOfNat(3), L), -53), DAbsDiff(ewma, L))
              /\ ~DLess(DScale(L, -50), DMul(cin.alpha, DAbsDiff(ewma, L)))
              /\ cin.alpha \in {FloatHalf, FloatOne} => ewma = L
        /\ cout.other
           => (DLess(DScale(DMul(DOfNat(3), DMax(cout.prev, M)), -53),
                     DMul(cin.alpha, DAbsDiff(M, cout.prev)))
                  => DLess(DAbsDiff(ewma, M), DAbsDiff(cout.prev, M)))

\* smooth 0.01 and two releases of 41 ms: ewmaMS has drifted further from 41
\* than one rounding of 41 (41 * 2^-52), and a release with another latency
\* is still to come.
C11_Witness ==
    /\ cin.alpha = Float001
    /\ Milliseconds(cin.lat) = 41
    /\ nrel >= 2
    /\ ~cout.other
    /\ DLess(providers[0].ewmaMS, FOfInt(41))
    /\ DLess(DScale(FOfInt(41), -52), DAbsDiff(providers[0].ewmaMS, FOfInt(41)))

(***************************************************************************)
(* Further claims checked under Spec.                                      *)
(***************************************************************************)

\* C12: unhealthyUntil of a P2C-EWMA provider never decreases from one state
\* to the next, whatever the order in which the requests in flight are
\* released, the clock never going back.
C12_UnhealthyUntilStep ==
    kind = P2CEWMAName
        => \A i \in DOMAIN providers :
              providers'[i].unhealthyUntil >= providers[i].unhealthyUntil

C12_UnhealthyUntilMonotone == [][C12_UnhealthyUntilStep]_vars

\* A failed release moved unhealthyUntil forward from the cooldown started by
\* an earlier failure, the request having been in flight at that failure.
C12_Witness ==
    /\ kind = P2CEWMAName
    /\ req.last.op = "released"
    /\ ~req.last.ok
    /\ req.last.before.unhealthyUntil > 0
    /\ providers[req.last.provider].unhealthyUntil > req.last.before.unhealthyUntil
    /\ req.last.at - req.last.latency <= req.last.before.unhealthyUntil - cfg.cooldown

\* A step in which a request's release callback updates the balancer.
ReleaseStep == req.last.op = "none" /\ req'.last.op = "released"

\* C40: a release with ok = true on a P2C-EWMA provider leaves unhealthyUntil
\* unchanged (a success reported while the provider is in cooldown neither
\* shortens nor ends the cooldown), and releases on round-robin and
\* least-connection balancers change no state other than the
\* least-connection provider's inFlight count.
C40_ReleaseFrameStep ==
    ReleaseStep =>
        LET p == req'.last.provider
        IN  /\ (kind = P2CEWMAName /\ req'.last.ok) =>
                  \A q \in DOMAIN providers :
                      providers'[q].unhealthyUntil = providers[q].unhealthyUntil
            /\ kind = RRName => (providers' = providers /\ currentIX' = currentIX)
            /\ kind = LCName =>
                  /\ currentIX' = currentIX
                  /\ providers' = [providers EXCEPT ![p].inFlight = @ - 1]

\* C40, over every step.
C40_ReleaseFrame == [][C40_ReleaseFrameStep]_vars

\* A request is released with ok = true on a P2C-EWMA provider that was in
\* cooldown at that time, and the cooldown still runs.
C40_Witness ==
    /\ kind = P2CEWMAName
    /\ req.last.op = "released"
    /\ req.last.ok
    /\ req.last.at < req.last.before.unhealthyUntil
    /\ providers[req.last.provider].unhealthyUntil = req.last.before.unhealthyUntil
    /\ now < providers[req.last.provider].unhealthyUntil

\* C39: on a P2C-EWMA balancer with N >= 1 providers, borrow always returns
\* one of the configured providers and never the empty payload, also when
\* every provider is in cooldown (all scores +infinity); a provider in
\* cooldown (as this borrow found it) is returned exactly when N = 1 or the
\* other sampled candidate is in cooldown too.
C39_NeverEmpty ==
    \A c \in Callers :
        (kind = P2CEWMAName /\ cl[c].pc = "inc") =>
            /\ cl[c].held \in DOMAIN providers
            /\ NProviders = 1 => cl[c].held = 0
            /\ NProviders >= 2 =>
                  /\ cl[c].held \in {cl[c].i, cl[c].j}
                  /\ cl[c].held \in cl[c].cool <=> {cl[c].i, cl[c].j} \subseteq cl[c].cool

(***************************************************************************)
(* Serial specification: one goroutine calls Borrow and release callbacks  *)
(* of a round-robin or least-connection balancer one after another, no two *)
(* calls overlapping; a handle may stay unreleased over later borrows.     *)
(***************************************************************************)
MaxSerialBorrows == 8     \* Borrow calls made in one behaviour
MaxSerialProviders == 3   \* providers configured for the chain

\* The handle of the empty payload, whose release is a no-op.
EmptyHandle == -1

\* The latest call: its kind, the ordinal of the borrow, the provider borrowed
\* or released, and the balancer's state before the call.
NoCall == [op |-> "none", k |-> 0, provider |-> EmptyHandle, before |-> <<>>, beforeIX |-> 0]

\* RoundRobin.Borrow with a cursor that stays where it is.
advanceIXStay(ix, n) == ix

\* RoundRobin.Borrow: the cursor after the borrow, wrapping at the length.
advanceIX(ix, n) == IF ix + 1 = n THEN 0 ELSE ix + 1

SerialInit ==
    /\ kind \in {RRName, LCName}
    /\ cfg = DefaultCfg
    /\ \E n \in 0..MaxSerialProviders :
          /\ providers = NewProviders(n)
          /\ failAt = [i \in 0..(n - 1) |-> -1]
          /\ req = [held |-> [h \in {EmptyHandle} \cup 0..(n - 1) |-> 0], last |-> NoCall]
    /\ currentIX = 0
    /\ now = 0
    /\ nrel = 0
    /\ nborrow = 0
    /\ scoreObs = NoObs
    /\ cl = <<>>
    /\ cin = NoInput
    /\ cout = NoOutput

\* RoundRobin.Borrow / LeastConnection.Borrow, the whole call.  Round-robin
\* over no providers panics on the index; least-connection over no providers
\* returns the empty payload.
SerialBorrow ==
    /\ req.last.op # "panic"
    /\ nborrow < MaxSerialBorrows
    /\ nborrow' = nborrow + 1
    /\ LET call == [op |-> "borrow", k |-> nborrow + 1, provider |-> EmptyHandle,
                    before |-> providers, beforeIX |-> currentIX]
       IN  IF NProviders = 0
           THEN /\ req' = IF kind = RRName
                          THEN [req EXCEPT !.last = [call EXCEPT !.op = "panic"]]
                          ELSE [req EXCEPT !.last = call, !.held[EmptyHandle] = @ + 1]
                /\ UNCHANGED <<providers, currentIX>>
           ELSE \E p \in BorrowPicks :
                   /\ req' = [req EXCEPT !.last = [call EXCEPT !.provider = p],
                                         !.held[p] = @ + 1]
                   /\ providers' = IF kind = LCName
                                   THEN [providers EXCEPT ![p] = inFlightInc(@)]
                                   ELSE providers
                   /\ currentIX' = IF kind = RRName
                                   THEN advanceIX(currentIX, NProviders)
                                   ELSE currentIX
    /\ UNCHANGED <<kind, cfg, now, failAt, nrel, scoreObs, cl, cin, cout>>

\* The release callback of an unreleased handle h: inFlightDec for a
\* least-connection provider, a no-op otherwise.
SerialRelease(h) ==
    /\ req.last.op # "panic"
    /\ req.held[h] > 0
    /\ req' = [req EXCEPT !.held[h] = @ - 1,
                          !.last = [op |-> "release", k |-> nborrow, provider |-> h,
                                    before |-> providers, beforeIX |-> currentIX]]
    /\ providers' = IF kind = LCName /\ h # EmptyHandle
                    THEN [providers EXCEPT ![h] = inFlightDec(@)]
                    ELSE providers
    /\ UNCHANGED <<kind, cfg, currentIX, now, failAt, nrel, nborrow, scoreObs, cl, cin, cout>>

SerialNext ==
    \/ SerialBorrow
    \/ \E h \in DOMAIN req.held : SerialRelease(h)

SpecSerial == SerialInit /\ [][SerialNext]_vars

(***************************************************************************)
(* Claims checked under SpecSerial.                                        *)
(***************************************************************************)

\* C13: for a round-robin balancer over N >= 1 providers the k-th borrow
\* since construction returns the provider at configured index (k-1) mod N
\* (so [A,B,C] yields A,B,C,A,B,C,A,B over eight borrows), and the release
\* callback changes no state.
C13_RoundRobinOrder ==
    (kind = RRName /\ NProviders >= 1) =>
        /\ req.last.op = "borrow" => req.last.provider = (req.last.k - 1) % NProviders
        /\ req.last.op = "release" =>
              /\ providers = req.last.before
              /\ currentIX = req.last.beforeIX

\* The eighth borrow over three providers returns the second one (B), the
\* handles of the third having been released in between.
C13_Witness ==
    /\ kind = RRName
    /\ NProviders = 3
    /\ req.last.op = "borrow"
    /\ req.last.k = 8
    /\ req.last.provider = 1
    /\ req.held[2] = 0

\* The least inFlight over the providers as they were before the latest call.
MinInFlightBefore ==
    CHOOSE m \in {req.last.before[i].inFlight : i \in DOMAIN req.last.before} :
        \A i \in DOMAIN req.last.before : m <= req.last.before[i].inFlight

\* C15: for a least-connection balancer whose borrows and releases do not
\* overlap, borrow returns a provider whose inflight is minimal over all
\* providers at that moment and increments it by exactly one, the matching
\* release decrements it by exactly one; with two providers, after borrowing
\* A without releasing it, the next borrow returns B.
C15_LeastConnection ==
    (kind = LCName /\ NProviders >= 1) =>
        /\ req.last.op = "borrow" =>
              /\ req.last.before[req.last.provider].inFlight = MinInFlightBefore
              /\ providers = [req.last.before EXCEPT ![req.last.provider] = inFlightInc(@)]
              /\ providers[req.last.provider].inFlight = MinInFlightBefore + 1
              /\ NProviders = 2 =>
                    \A a \in DOMAIN providers :
                        (req.last.k = 2 /\ req.last.before[a].inFlight = 1)
                            => req.last.provider = 1 - a
        /\ (req.last.op = "release" /\ req.last.provider # EmptyHandle) =>
              /\ providers = [req.last.before EXCEPT ![req.last.provider] = inFlightDec(@)]
              /\ providers[req.last.provider].inFlight
                    = req.last.before[req.last.provider].inFlight - 1

\* Two providers: the first borrow returned the first provider and is
\* unreleased, the second borrow returns the second provider.
C15_Witness ==
    /\ kind = LCName
    /\ NProviders = 2
    /\ req.last.op = "borrow"
    /\ req.last.k = 2
    /\ req.last.before[0].inFlight = 1
    /\ req.last.before[1].inFlight = 0
    /\ req.last.provider = 1
    /\ providers[1].inFlight = 1

(***************************************************************************)
(* Further claims checked under SpecLB.                                    *)
(***************************************************************************)

\* C14: for each of the three balancers, borrow on a balancer constructed
\* with an empty provider list returns the empty payload together with a
\* release callback that changes no state; the borrow does not panic.
C14_EmptyBorrow ==
    NProviders = 0 =>
        \A c \in Callers :
            /\ cl[c].pc \in {"idle", "holding"}
            /\ cl[c].pc = "holding" => cl[c].held = -1

(***************************************************************************)
(* Go strings as sequences of byte values, and encoding/base64's           *)
(* StdEncoding as GetBasicAuthDecoded and its test use it.                 *)
(***************************************************************************)

\* The printable ASCII characters, the character of code c at index c - 31
\* (the double quote, the backslash and the backtick by name).
Printable ==
    <<" ", "!", "dquote", "#", "$", "%", "&", "'", "(", ")", "*", "+", ",", "-", ".", "/",
      "0", "1", "2", "3", "4", "5", "6", "7", "8", "9", ":", ";", "<", "=", ">", "?",
      "@", "A", "B", "C", "D", "E", "F", "G", "H", "I", "J", "K", "L", "M", "N", "O",
      "P", "Q", "R", "S", "T", "U", "V", "W", "X", "Y", "Z", "[", "backslash", "]", "^", "_",
      "backtick", "a", "b", "c", "d", "e", "f", "g", "h", "i", "j", "k", "l", "m", "n", "o",
      "p", "q", "r", "s", "t", "u", "v", "w", "x", "y", "z", "{", "|", "}", "~">>

\* The byte value of a printable character.
Code(ch) == 31 + (CHOOSE k \in 1..Len(Printable) : Printable[k] = ch)

\* The Go string written as a tuple of its characters.
Bytes(chars) == [k \in 1..Len(chars) |-> Code(chars[k])]

\* strings.HasPrefix / strings.TrimPrefix.
HasPrefix(s, prefix) ==
    /\ Len(s) >= Len(prefix)
    /\ SubSeq(s, 1, Len(prefix)) = prefix
TrimPrefix(s, prefix) ==
    IF HasPrefix(s, prefix) THEN SubSeq(s, Len(prefix) + 1, Len(s)) ELSE s

\* strings.Cut with a one-byte separator: before, after, found.
Cut(s, sep) ==
    IF \E k \in 1..Len(s) : s[k] = sep
    THEN LET k == CHOOSE k \in 1..Len(s) : s[k] = sep /\ \A h \in 1..(k - 1) : s[h] # sep
         IN  [before |-> SubSeq(s, 1, k - 1), after |-> SubSeq(s, k + 1, Len(s)), found |-> TRUE]
    ELSE [before |-> s, after |-> <<>>, found |-> FALSE]

\* base64.StdEncoding: the alphabet and the padding character.
encodeStd ==
    Bytes(<<"A", "B", "C", "D", "E", "F", "G", "H", "I", "J", "K", "L", "M", "N", "O", "P",
            "Q", "R", "S", "T", "U", "V", "W", "X", "Y", "Z", "a", "b", "c", "d", "e", "f",
            "g", "h", "i", "j", "k", "l", "m", "n", "o", "p", "q", "r", "s", "t", "u", "v",
            "w", "x", "y", "z", "0", "1", "2", "3", "4", "5", "6", "7", "8", "9", "+", "/">>)
StdPadding == Code("=")

\* The 6-bit value of an alphabet character; the padding character counts 0.
InAlphabet(c) == \E v \in 1..Len(encodeStd) : encodeStd[v] = c
decodeMap(c) ==
    IF InAlphabet(c) THEN (CHOOSE v \in 1..Len(encodeStd) : encodeStd[v] = c) - 1 ELSE 0

\* base64.StdEncoding.EncodeToString: three bytes to four characters, the
\* last group padded.
EncodeToString(b) ==
    LET m == Len(b)
        B(i) == IF i <= m THEN b[i] ELSE 0
        Char(k) ==
            LET q == 3 * ((k - 1) \div 4)
                j == (k - 1) % 4
            IN  IF j = 0 THEN encodeStd[(B(q + 1) \div 4) + 1]
                ELSE IF j = 1 THEN encodeStd[((B(q + 1) % 4) * 16) + (B(q + 2) \div 16) + 1]
                ELSE IF j = 2
                THEN IF q + 2 > m THEN StdPadding
                     ELSE encodeStd[((B(q + 2) % 16) * 4) + (B(q + 3) \div 64) + 1]
                ELSE IF q + 3 > m THEN StdPadding
                     ELSE encodeStd[(B(q + 3) % 64) + 1]
    IN  [k \in 1..(4 * ((m + 2) \div 3)) |-> Char(k)]

\* base64.StdEncoding.DecodeString: \r and \n are skipped; what remains is
\* groups of four alphabet characters, the last group ending in up to two
\* padding characters; trailing bits are not checked.
DecodeString(s) ==
    LET t == SelectSeq(s, LAMBDA c : c # 10 /\ c # 13)
        n == Len(t)
        pad == IF n >= 1 /\ t[n] = StdPadding
               THEN IF n >= 2 /\ t[n - 1] = StdPadding THEN 2 ELSE 1
               ELSE 0
        wellFormed ==
            /\ n % 4 = 0
            /\ \A k \in 1..(n - pad) : InAlphabet(t[k])
        V(i) == decodeMap(t[i])
        Byte(k) ==
            LET q == 4 * ((k - 1) \div 3)
                j == (k - 1) % 3
            IN  IF j = 0 THEN (V(q + 1) * 4) + (V(q + 2) \div 16)
                ELSE IF j = 1 THEN ((V(q + 2) % 16) * 16) + (V(q + 3) \div 4)
                ELSE ((V(q + 3) % 4) * 64) + V(q + 4)
    IN  IF wellFormed
        THEN [bytes |-> [k \in 1..((3 * (n \div 4)) - pad) |-> Byte(k)], err |-> FALSE]
        ELSE [bytes |-> <<>>, err |-> TRUE]

\* GetBasicAuthDecoded: prefix, separator, defaultClient.
BasicPrefix == Bytes(<<"B", "a", "s", "i", "c", " ">>)
Separator == Code(":")
defaultClient == Bytes(<<"_", "u", "n", "k", "n", "o", "w", "n", "_">>)

\* GetBasicAuthDecoded that does not trim the prefix.
GetBasicAuthDecodedNoTrim(header) ==
    LET decodedLoginPass == DecodeString(header)
        c == Cut(decodedLoginPass.bytes, Separator)
    IN  IF decodedLoginPass.err
        THEN [login |-> defaultClient, pass |-> <<>>, err |-> TRUE]
        ELSE [login |-> IF c.before = <<>> THEN defaultClient ELSE c.before,
              pass |-> c.after, err |-> FALSE]

\* GetBasicAuthDecoded: login, pass, err # nil.
GetBasicAuthDecoded(header) ==
    LET removedPrefix == TrimPrefix(header, BasicPrefix)
        decodedLoginPass == DecodeString(removedPrefix)
        c == Cut(decodedLoginPass.bytes, Separator)
    IN  IF decodedLoginPass.err
        THEN [login |-> defaultClient, pass |-> <<>>, err |-> TRUE]
        ELSE [login |-> IF c.before = <<>> THEN defaultClient ELSE c.before,
              pass |-> c.after, err |-> FALSE]

(***************************************************************************)
(* Decoding specification: GetBasicAuthDecoded applied to the headers a    *)
(* client builds from a login and a password, and to corrupted headers.    *)
(***************************************************************************)
MaxTextLen == 2   \* longest login and longest password

\* The bytes logins and passwords are made of: a letter, the separator and a
\* byte whose encoding uses the last characters of the alphabet.
TextBytes == {Code("a"), Separator, Code("~")}
Texts == UNION {[1..n -> TextBytes] : n \in 0..MaxTextLen}

\* Header values that are no base64 text.
CorruptHeaders ==
    { Bytes(<<"=", "c", "o", "r", "r", "u", "p", "t", "e", "d">>),
      Bytes(<<"B", "a", "s", "i", "c", " ", "Y", "W", "R", "t", "!", "W", "4", "=">>),
      Bytes(<<"B", "a", "s", "i", "c", " ", "Y", "T", "p", "h", "Y">>),
      Bytes(<<"b", "a", "s", "i", "c", " ", "Y", "T", "p", "h">>),
      Bytes(<<"Y", "T", "=", "h">>),
      Bytes(<<"B", "a", "s", "i", "c", " ", "Y", "=", "=", "=">>) }

DecodeInit ==
    /\ \/ \E login \in Texts, pass \in Texts, prefixed \in BOOLEAN :
             cin = [built |-> TRUE, login |-> login, pass |-> pass,
                    header |-> (IF prefixed THEN BasicPrefix ELSE <<>>)
                                   \o EncodeToString(login \o <<Separator>> \o pass)]
       \/ \E header \in CorruptHeaders :
             cin = [built |-> FALSE, login |-> <<>>, pass |-> <<>>, header |-> header]
    /\ cout = [done |-> FALSE, login |-> <<>>, pass |-> <<>>, err |-> FALSE]
    /\ kind = P2CEWMAName
    /\ cfg = DefaultCfg
    /\ providers = NewProviders(1)
    /\ failAt = [i \in {0} |-> -1]
    /\ currentIX = 0
    /\ now = 0
    /\ nrel = 0
    /\ nborrow = 0
    /\ scoreObs = NoObs
    /\ cl = <<>>
    /\ req = <<>>

\* One call of GetBasicAuthDecoded on the header.
Decode ==
    /\ ~cout.done
    /\ LET r == GetBasicAuthDecoded(cin.header)
       IN  cout' = [done |-> TRUE, login |-> r.login, pass |-> r.pass, err |-> r.err]
    /\ UNCHANGED <<kind, cfg, providers, currentIX, now, failAt, nrel, nborrow, scoreObs, cl, req, cin>>

DecodeNext == Decode

SpecDecode == DecodeInit /\ [][DecodeNext]_vars

\* The position of the first separator in login ':' pass.
FirstSeparator(text) ==
    CHOOSE k \in 1..Len(text) : text[k] = Separator /\ \A h \in 1..(k - 1) : text[h] # Separator

\* C19: GetBasicAuthDecoded: for any login and password, decoding
\* base64(login ':' password) with or without the leading "Basic " prefix
\* returns the text before the first ':' as login and the text after it as
\* password; an empty login is returned as _unknown_; a header value that
\* is not valid base64 returns an error.
C19_Decoded ==
    cout.done =>
        IF cin.built
        THEN LET text == cin.login \o <<Separator>> \o cin.pass
                 k == FirstSeparator(text)
             IN  /\ ~cout.err
                 /\ cout.login = IF k = 1 THEN defaultClient ELSE SubSeq(text, 1, k - 1)
                 /\ cout.pass = SubSeq(text, k + 1, Len(text))
                 /\ (\A h \in 1..Len(cin.login) : cin.login[h] # Separator) =>
                       /\ cout.login = IF cin.login = <<>> THEN defaultClient ELSE cin.login
                       /\ cout.pass = cin.pass
        ELSE cout.err

\* A prefixed header of a two-byte login and a password holding a separator
\* has been decoded.
C19_Witness ==
    /\ cout.done
    /\ cin.built
    /\ HasPrefix(cin.header, BasicPrefix)
    /\ cin.login = <<Code("a"), Code("~")>>
    /\ cin.pass = <<Separator, Code("a")>>
    /\ cout.login = cin.login
    /\ cout.pass = cin.pass

(***************************************************************************)
(* Stage specification: HTTP requests taken one after another through the  *)
(* stages of New's handler: recoverHandler, transportRouter (HTTP side),   *)
(* healthzProbeMiddleware, loggingMiddleware, metricsMiddleware,           *)
(* authMiddleware, routerHandler, loadBalancerMiddleware,                  *)
(* requestResponseParserMiddleware and Server.handler.  One chain is       *)
(* configured; the clock stands still.  The variable cl holds the          *)
(* server's clients and metrics configuration, req the request in the      *)
(* pipeline.                                                               *)
(***************************************************************************)
MaxArrivals == 2     \* requests taken in one behaviour

StatusUnauthorized == 401
StatusNotFound == 404

\* The configured chain and the paths requests come with.
ChainName == Bytes(<<"e", "t", "h">>)
Slash == Bytes(<<"/">>)
ChainPath == Slash \o ChainName
healthzProbePath == Bytes(<<"/", "h", "e", "a", "l", "t", "h", "z">>)
UnknownPath == Bytes(<<"/", "n", "o", "p", "e">>)
Paths == {ChainPath, healthzProbePath, UnknownPath}

\* Server.nameToChainID.
nameToChainID == [path \in {ChainPath} |-> 1]

\* routerHandler: the lookup that finds every path.
routeExistsAny(path) == TRUE

\* routerHandler: chainID, exist := srv.nameToChainID[path].
routeExists(path) == path \in DOMAIN nameToChainID

\* Logins and passwords of the configuration and of the requests.
LoginAdmin == Bytes(<<"a", "d", "m", "i", "n">>)
LoginGuest == Bytes(<<"g", "u", "e", "s", "t">>)
PassTest == Bytes(<<"t", "e", "s", "t">>)
PassWrong == Bytes(<<"w", "r", "o", "n", "g">>)

\* Authorization header values: none, admin:test with and without the
\* prefix, admin:wrong, guest:test, and a corrupted one.
BasicHeader(login, pass) == BasicPrefix \o EncodeToString(login \o <<Separator>> \o pass)
SampleHeaders ==
    { <<>>,
      BasicHeader(LoginAdmin, PassTest),
      EncodeToString(LoginAdmin \o <<Separator>> \o PassTest),
      BasicHeader(LoginAdmin, PassWrong),
      BasicHeader(LoginGuest, PassTest),
      Bytes(<<"=", "c", "o", "r", "r", "u", "p", "t", "e", "d">>) }

\* GetBasicAuthDecoded of each of the header values.
DecodedHeader == [header \in SampleHeaders |-> GetBasicAuthDecoded(header)]

\* Values of the client query argument: absent and "app".
QueryValues == {<<>>, Bytes(<<"a", "p", "p">>)}

\* config.Clients.Clients: one client, and one more whose login is the
\* default client name with an empty password.
ClientLists ==
    { <<[Login |-> LoginAdmin, Password |-> PassTest]>>,
      <<[Login |-> LoginAdmin, Password |-> PassTest],
        [Login |-> defaultClient, Password |-> <<>>]>> }

\* config.Clients with config.Metrics.Enabled.
ClientConfigs ==
    [Type : {<<>>, Bytes(<<"b", "a", "s", "i", "c">>), Bytes(<<"q", "u", "e", "r", "y">>)},
     AuthRequired : BOOLEAN,
     Clients : ClientLists,
     MetricsEnabled : BOOLEAN]
QueryType == Bytes(<<"q", "u", "e", "r", "y">>)

\* authMiddleware: loginToPass, a later client overwriting an earlier one of
\* the same login.
loginToPass(clients) ==
    [login \in {clients[k].Login : k \in 1..Len(clients)} |->
        clients[CHOOSE k \in 1..Len(clients) :
                    /\ clients[k].Login = login
                    /\ \A h \in (k + 1)..Len(clients) : clients[h].Login # login].Password]

\* authMiddleware's checks with the password comparison left out.
authorizedLoginOnly(clients, d) ==
    /\ ~d.err
    /\ d.login \in DOMAIN loginToPass(clients)

\* authMiddleware, basic type with AuthRequired: next(ctx) is reached when
\* decoding did not fail, the login exists and the password is the expected.
authorized(clients, d) ==
    /\ ~d.err
    /\ d.login \in DOMAIN loginToPass(clients)
    /\ loginToPass(clients)[d.login] = d.pass

\* authMiddleware, query type, with the empty value kept.
queryClientRaw(c) == c

\* authMiddleware, query type: the client name.
queryClient(c) == IF c = <<>> THEN defaultClient ELSE c

\* ReqCtx of a request no stage has written to.
NewReqCtx ==
    [Client |-> <<>>, ChainID |-> 0, RPCName |-> <<>>, Provider |-> -1, Response |-> <<>>]

\* SetToReqCtx whose ReqCtx is not stored back.
SetClientDropped(rc, c) == rc

\* SetToReqCtx(ctx, func(rc *ReqCtx) { rc.Client = c }).
SetClient(rc, c) == [rc EXCEPT !.Client = c]

\* A response body written by the gateway itself (ctx.Error, SetBodyString).
BodyText(chars) == [shape |-> "text", text |-> chars]

\* ctx.Error("internal server error", ...).
InternalServerErrorText ==
    Bytes(<<"i", "n", "t", "e", "r", "n", "a", "l", " ", "s", "e", "r", "v", "e", "r",
            " ", "e", "r", "r", "o", "r">>)

\* What loggingMiddleware logs and metricsMiddleware labels; nothing yet.
NoObservation == [seen |-> FALSE, client |-> <<>>, status |-> 0]

NoRequest ==
    [pc |-> "idle", n |-> 0, path |-> <<>>, header |-> <<>>, clientArg |-> <<>>,
     rc |-> NewReqCtx, status |-> StatusOK, body |-> BodyText(<<>>),
     ran |-> {}, rejected |-> "none", outcome |-> "none", upstreamCalls |-> 0,
     logged |-> NoObservation, metered |-> NoObservation,
     before |-> [providers |-> <<>>, currentIX |-> 0]]

\* What the upstream answers in the stage specification, whose requests are
\* single (not batched) ones.
StageUpstreams ==
    { [status |-> StatusOK, body |-> BodyObject(NoError)],
      [status |-> 503, body |-> BodyInvalid] }

StageInit ==
    /\ kind \in {P2CEWMAName, RRName, LCName, ""}
    /\ cfg = PipelineCfg
    /\ \E n \in 1..MaxProviders :
          /\ providers = NewProviders(n)
          /\ failAt = [i \in 0..(n - 1) |-> -1]
    /\ currentIX = 0
    /\ now = 0
    /\ nrel = 0
    /\ nborrow = 0
    /\ scoreObs = NoObs
    /\ cl \in ClientConfigs
    /\ req = NoRequest
    /\ cin = NoInput
    /\ cout = NoOutput

\* healthzProbeMiddleware that takes no path for the probe.
isHealthzProbeNever(path) == FALSE

\* healthzProbeMiddleware: string(ctx.Path()) == healthzProbePath.
isHealthzProbe(path) == path = healthzProbePath

\* Server.handler sending the request again after cli.Do failed.
upstreamAttemptsRetry(outcome) == IF outcome = "doErr" THEN 2 ELSE 1

\* Server.handler: the calls of srv.cli.Do for one request.
upstreamAttempts(outcome) == IF outcome \in Outcomes THEN 1 ELSE 0

\* A request arrives: recoverHandler, transportRouter and
\* healthzProbeMiddleware, which answers the probe itself; otherwise
\* loggingMiddleware and metricsMiddleware call next(ctx) at once.
Arrive(path, header, clientArg) ==
    /\ req.pc \in {"idle", "done"}
    /\ req.n < MaxArrivals
    /\ LET r == [NoRequest EXCEPT !.n = req.n + 1, !.path = path, !.header = header,
                                  !.clientArg = clientArg,
                                  !.before = [providers |-> providers, currentIX |-> currentIX]]
       IN  req' = IF isHealthzProbe(path)
                  THEN [r EXCEPT !.pc = "done", !.status = StatusOK,
                                 !.body = BodyText(Bytes(<<"o", "k">>)), !.rejected = "healthz"]
                  ELSE [r EXCEPT !.pc = "auth"]
    /\ UNCHANGED <<kind, cfg, providers, currentIX, now, failAt, nrel, nborrow, scoreObs, cl, cin, cout>>

\* authMiddleware.
Auth ==
    /\ req.pc = "auth"
    /\ IF cl.Type = QueryType
       THEN req' = [req EXCEPT !.rc = SetClient(@, queryClient(req.clientArg)),
                               !.ran = @ \cup {"auth"}, !.pc = "router"]
       ELSE LET d == GetBasicAuthDecoded(req.header)
                rc == SetClient(req.rc, d.login)
            IN  IF ~cl.AuthRequired \/ authorized(cl.Clients, d)
                THEN req' = [req EXCEPT !.rc = rc, !.ran = @ \cup {"auth"}, !.pc = "router"]
                ELSE req' = [req EXCEPT !.rc = rc, !.ran = @ \cup {"auth"},
                                        !.status = StatusUnauthorized,
                                        !.body = BodyText(<<>>),
                                        !.rejected = "auth", !.pc = "metrics"]
    /\ UNCHANGED <<kind, cfg, providers, currentIX, now, failAt, nrel, nborrow, scoreObs, cl, cin, cout>>

\* routerHandler.
Router ==
    /\ req.pc = "router"
    /\ IF ~routeExists(req.path)
       THEN req' = [req EXCEPT !.ran = @ \cup {"router"},
                               !.status = StatusNotFound,
                               !.body = BodyText(Bytes(<<"n", "o", "t", " ", "f", "o", "u", "n", "d">>)),
                               !.rejected = "router", !.pc = "metrics"]
       ELSE req' = [req EXCEPT !.ran = @ \cup {"router"},
                               !.rc.ChainID = IF req.path \in DOMAIN nameToChainID
                                              THEN nameToChainID[req.path] ELSE 0,
                               !.rc.RPCName = TrimPrefix(req.path, Slash),
                               !.pc = "lb"]
    /\ UNCHANGED <<kind, cfg, providers, currentIX, now, failAt, nrel, nborrow, scoreObs, cl, cin, cout>>

\* loadBalancerMiddleware up to next(ctx): when New registered no balancer
\* for the chain (lb == nil) it answers 500 and borrows nothing; otherwise
\* lb.Borrow().
Dispatch ==
    /\ req.pc = "lb"
    /\ IF ~balancerRegistered([BalancerType |-> kind])
       THEN /\ req' = [req EXCEPT !.ran = @ \cup {"lb"},
                                  !.status = StatusInternalServerError,
                                  !.body = BodyText(InternalServerErrorText),
                                  !.rejected = "lb", !.pc = "metrics"]
            /\ UNCHANGED <<providers, currentIX, nborrow>>
       ELSE /\ nborrow' = nborrow + 1
            /\ \E p \in BorrowPicks :
                  /\ req' = [req EXCEPT !.ran = @ \cup {"lb"}, !.rc.Provider = p,
                                        !.pc = "forward"]
                  /\ providers' = IF kind = RRName THEN providers
                                  ELSE [providers EXCEPT ![p] = inFlightInc(@)]
            /\ currentIX' = IF kind = RRName
                            THEN advanceIX(currentIX, NProviders)
                            ELSE currentIX
    /\ UNCHANGED <<kind, cfg, now, failAt, nrel, scoreObs, cl, cin, cout>>

\* requestResponseParserMiddleware and Server.handler, then
\* loadBalancerMiddleware's release; a panic unwinds to recoverHandler, past
\* the release and past metricsMiddleware and loggingMiddleware.
Forward(outcome, isBatched, up) ==
    /\ req.pc = "forward"
    /\ outcome # "resp" => up = [status |-> StatusOK, body |-> BodyInvalid]
    /\ LET p == req.rc.Provider
           res == handler(outcome, up.status, up.body)
           response == parseResponse(isBatched, res.body)
           ok == releaseOk(res.status, response)
           entered == [req EXCEPT !.ran = @ \cup {"parser", "handler"},
                                  !.upstreamCalls = @ + upstreamAttempts(outcome),
                                  !.outcome = outcome]
       IN  IF outcome = "panic"
           THEN /\ req' = [entered EXCEPT !.status = StatusInternalServerError,
                                          !.body = BodyText(InternalServerErrorText),
                                          !.pc = "done"]
                /\ UNCHANGED <<providers, failAt>>
           ELSE /\ req' = [entered EXCEPT !.status = res.status, !.body = res.body,
                                          !.rc.Response = response, !.pc = "metrics"]
                /\ providers' =
                      IF kind = RRName THEN providers
                      ELSE IF kind = LCName THEN [providers EXCEPT ![p] = inFlightDec(@)]
                      ELSE [providers EXCEPT ![p] =
                               inFlightDec(onRelease(@, ok, 0, cfg.smooth, cfg.penaltyDecay,
                                                     cfg.cooldown, now))]
                /\ failAt' = IF kind = P2CEWMAName /\ ~ok THEN [failAt EXCEPT ![p] = now] ELSE failAt
    /\ UNCHANGED <<kind, cfg, currentIX, now, nrel, nborrow, scoreObs, cl, cin, cout>>

\* metricsMiddleware after next(ctx): the client label, when metrics are on.
Metrics ==
    /\ req.pc = "metrics"
    /\ req' = [req EXCEPT !.pc = "logging",
                          !.metered = IF cl.MetricsEnabled
                                      THEN [seen |-> TRUE, client |-> req.rc.Client,
                                            status |-> req.status]
                                      ELSE NoObservation]
    /\ UNCHANGED <<kind, cfg, providers, currentIX, now, failAt, nrel, nborrow, scoreObs, cl, cin, cout>>

\* loggingMiddleware after next(ctx): the "request completed" record.
Logging ==
    /\ req.pc = "logging"
    /\ req' = [req EXCEPT !.pc = "done",
                          !.logged = [seen |-> TRUE, client |-> req.rc.Client,
                                      status |-> req.status]]
    /\ UNCHANGED <<kind, cfg, providers, currentIX, now, failAt, nrel, nborrow, scoreObs, cl, cin, cout>>

StageNext ==
    \/ \E path \in Paths, header \in SampleHeaders, clientArg \in QueryValues :
          Arrive(path, header, clientArg)
    \/ Auth
    \/ Router
    \/ Dispatch
    \/ \E outcome \in {"panic", "doErr"} :
          Forward(outcome, FALSE, [status |-> StatusOK, body |-> BodyInvalid])
    \/ \E up \in StageUpstreams : Forward("resp", FALSE, up)
    \/ Metrics
    \/ Logging

SpecStages == StageInit /\ [][StageNext]_vars

(***************************************************************************)
(* Claims checked under SpecStages.                                        *)
(***************************************************************************)

\* The request has left authMiddleware, by next(ctx) or by a rejection.
PastAuth == "auth" \in req.ran

\* authMiddleware has called next(ctx) for the request.
PassedAuth == PastAuth /\ (req.pc = "router" \/ "router" \in req.ran)

\* No stage inside routerHandler has run for the request and it has changed
\* nothing of the balancer.
NoInnerStage ==
    /\ req.ran \cap {"lb", "parser", "handler"} = {}
    /\ req.rc.Provider = NewReqCtx.Provider
    /\ req.upstreamCalls = 0
    /\ providers = req.before.providers
    /\ currentIX = req.before.currentIX

\* C16: in basic mode with auth_required set, a request is passed to the
\* inner stages only if the decoded login is in the configured allow-list
\* and the decoded password equals the configured password for that login;
\* in every other case the response is 401 with an empty body, no provider
\* is borrowed and no upstream call is issued.
C16_BasicAuth ==
    (cl.Type # QueryType /\ cl.AuthRequired /\ PastAuth) =>
        LET d == DecodedHeader[req.header]
            inList == \E k \in 1..Len(cl.Clients) : cl.Clients[k].Login = d.login
            passMatches == \E k \in 1..Len(cl.Clients) :
                              /\ cl.Clients[k].Login = d.login
                              /\ cl.Clients[k].Password = d.pass
        IN  IF ~d.err /\ inList /\ passMatches
            THEN PassedAuth
            ELSE /\ ~PassedAuth
                 /\ "router" \notin req.ran
                 /\ req.status = StatusUnauthorized
                 /\ req.body = BodyText(<<>>)
                 /\ NoInnerStage

\* The header of admin:wrong was answered 401 after an earlier request had
\* been forwarded, and the response has been logged.
C16_Witness ==
    /\ cl.Type # QueryType
    /\ cl.AuthRequired
    /\ req.n = 2
    /\ req.header = BasicHeader(LoginAdmin, PassWrong)
    /\ req.path = ChainPath
    /\ req.pc = "done"
    /\ req.status = StatusUnauthorized
    /\ req.logged.seen
    /\ nborrow = 1

\* C17: in query mode every request is passed on to the inner stages with
\* client set to the client query value (or _unknown_ when it is empty),
\* regardless of auth_required and of the configured allow-list; no request
\* is rejected with 401 in this mode.
C17_QueryMode ==
    (cl.Type = QueryType /\ PastAuth) =>
        /\ PassedAuth
        /\ req.rejected # "auth"
        /\ req.rc.Client = IF req.clientArg = <<>> THEN defaultClient ELSE req.clientArg
        /\ req.pc = "router" => req.status # StatusUnauthorized

\* Query mode with auth_required set: a request without a client value and
\* with the header of admin:wrong has been forwarded as _unknown_.
C17_Witness ==
    /\ cl.Type = QueryType
    /\ cl.AuthRequired
    /\ req.clientArg = <<>>
    /\ req.header = BasicHeader(LoginAdmin, PassWrong)
    /\ req.rc.Client = defaultClient
    /\ "handler" \in req.ran
    /\ req.pc = "done"
    /\ req.logged.seen

\* The identity authMiddleware resolves for the request.
ResolvedClient ==
    IF cl.Type = QueryType
    THEN IF req.clientArg = <<>> THEN defaultClient ELSE req.clientArg
    ELSE DecodedHeader[req.header].login

\* C18: in both auth modes the resolved client identity is written to the
\* request context before any inner stage runs and before any 401 rejection,
\* so the logging and metrics stages observe that identity for every request
\* that reaches the auth stage (and returns through them), including
\* requests whose upstream call fails.
C18_ClientBeforeInner ==
    /\ (req.pc = "router" \/ req.ran \cap {"router", "lb", "parser", "handler"} # {}
            \/ req.rejected = "auth")
          => (req.rc.Client = ResolvedClient /\ req.rc.Client # <<>>)
    /\ req.logged.seen => req.logged.client = ResolvedClient
    /\ req.metered.seen => req.metered.client = ResolvedClient
    /\ (PastAuth /\ req.pc = "done" /\ req.outcome # "panic") =>
          /\ req.logged.seen
          /\ cl.MetricsEnabled => req.metered.seen

\* Basic mode: a request of guest whose upstream call failed has been metered
\* and logged under the login guest.
C18_Witness ==
    /\ cl.Type # QueryType
    /\ cl.MetricsEnabled
    /\ req.header = BasicHeader(LoginGuest, PassTest)
    /\ req.outcome = "doErr"
    /\ req.pc = "done"
    /\ req.metered.seen
    /\ req.metered.client = LoginGuest
    /\ req.logged.seen
    /\ req.logged.client = LoginGuest

\* C20 as stated: every request whose path is not that of a configured chain
\* (nor the health probe) gets 404 "not found", and no inner stage runs.
C20_NotFoundAsStated ==
    (req.pc = "done" /\ req.path \notin {ChainPath, healthzProbePath}) =>
        /\ req.status = StatusNotFound
        /\ req.body = BodyText(Bytes(<<"n", "o", "t", " ", "f", "o", "u", "n", "d">>))
        /\ NoInnerStage

\* C20: a request that authMiddleware passes on and whose path is not that of
\* a configured chain (nor the health probe) gets 404 "not found"; no inner
\* stage runs for it: no envelope is parsed, no provider is borrowed, no
\* balancer state changes and no upstream call is issued.  A request that
\* authMiddleware rejects gets 401 whatever its path, and no inner stage
\* runs for it either.
C20_NotFound ==
    (req.path \notin {ChainPath, healthzProbePath} /\ PastAuth /\ req.pc # "router") =>
        /\ NoInnerStage
        /\ IF PassedAuth
           THEN /\ req.status = StatusNotFound
                /\ req.body = BodyText(Bytes(<<"n", "o", "t", " ", "f", "o", "u", "n", "d">>))
                /\ req.rejected = "router"
           ELSE /\ req.status = StatusUnauthorized
                /\ req.rejected = "auth"

\* An unknown path was answered 404 after an earlier request had been
\* forwarded, and the response has been logged.
C20_Witness ==
    /\ req.n = 2
    /\ req.path = UnknownPath
    /\ req.pc = "done"
    /\ req.status = StatusNotFound
    /\ req.rejected = "router"
    /\ req.logged.seen
    /\ nborrow = 1

\* C21: a non-websocket request to /healthz is answered 200 "ok" whatever
\* chains and auth settings are configured, and none of the later stages
\* (logging, metrics, auth, path router, load balancer, forwarder) runs for
\* it, so it emits no metric and touches no balancer.
C21_HealthzProbe ==
    (req.pc # "idle" /\ req.path = Bytes(<<"/", "h", "e", "a", "l", "t", "h", "z">>)) =>
        /\ req.pc = "done"
        /\ req.status = StatusOK
        /\ req.body = BodyText(Bytes(<<"o", "k">>))
        /\ req.ran = {}
        /\ req.rc = NewReqCtx
        /\ ~req.logged.seen
        /\ ~req.metered.seen
        /\ NoInnerStage

\* Basic mode with auth_required and metrics on: the probe was answered
\* without credentials, after an earlier request had been forwarded.
C21_Witness ==
    /\ cl.Type # QueryType
    /\ cl.AuthRequired
    /\ cl.MetricsEnabled
    /\ req.n = 2
    /\ req.path = healthzProbePath
    /\ req.header = <<>>
    /\ req.pc = "done"
    /\ req.status = StatusOK
    /\ nborrow = 1

\* C23: each inbound HTTP request causes at most one borrow and at most one
\* upstream POST; after a failed upstream call the request is never re-sent
\* to the same or to another provider, and the client receives the outcome
\* of that single attempt.
C23_NoRetry ==
    /\ nborrow <= req.n
    /\ req.upstreamCalls <= 1
    /\ "handler" \in req.ran =>
          /\ req.upstreamCalls = 1
          /\ providers = req.before.providers
                \/ \E p \in DOMAIN providers :
                      /\ p = req.rc.Provider
                      /\ \A q \in DOMAIN providers : q # p => providers[q] = req.before.providers[q]
    /\ (req.outcome = "doErr" /\ req.pc \in {"metrics", "logging", "done"}) =>
          /\ req.upstreamCalls = 1
          /\ req.status = StatusOK
          /\ req.body = BodyInvalid
    /\ (req.outcome = "resp" /\ req.pc \in {"metrics", "logging", "done"}) =>
          [status |-> req.status, body |-> req.body] \in StageUpstreams

\* The second request's only upstream call failed and the request has
\* returned to the client.
C23_Witness ==
    /\ req.n = 2
    /\ nborrow = 2
    /\ req.outcome = "doErr"
    /\ req.upstreamCalls = 1
    /\ req.pc = "done"
    /\ req.logged.seen

(***************************************************************************)
(* Envelope specification: requestResponseParserMiddleware, Server.handler *)
(* and metricsMiddleware applied to one forwarded HTTP request.  A body is *)
(* its text (bytes) together with the document encoding/json finds in it.  *)
(***************************************************************************)

\* Method names of JSON-RPC calls; the label of batches.
MethodA == Bytes(<<"e", "t", "h", "_", "a">>)
MethodB == Bytes(<<"e", "t", "h", "_", "b">>)
batchMethod == Bytes(<<"b", "a", "t", "c", "h">>)

\* JSON documents: no JSON at all, an object with a method, an array of
\* such objects, and a number.
DocInvalid == [shape |-> "invalid", calls |-> <<>>]
DocObject(m) == [shape |-> "object", calls |-> <<m>>]
DocArray(ms) == [shape |-> "array", calls |-> ms]
DocNumber == [shape |-> "number", calls |-> <<>>]

\* The text of {"method":"m"}.
RenderCall(m) ==
    Bytes(<<"{", "dquote", "m", "e", "t", "h", "o", "d", "dquote", ":", "dquote">>)
        \o m \o Bytes(<<"dquote", "}">>)

\* The text of a document of up to two calls.
Render(doc) ==
    IF doc.shape = "object" THEN RenderCall(doc.calls[1])
    ELSE IF doc.shape = "number" THEN Bytes(<<"7">>)
    ELSE IF Len(doc.calls) = 0 THEN Bytes(<<"[", "]">>)
    ELSE IF Len(doc.calls) = 1
    THEN Bytes(<<"[">>) \o RenderCall(doc.calls[1]) \o Bytes(<<"]">>)
    ELSE Bytes(<<"[">>) \o RenderCall(doc.calls[1]) \o Bytes(<<",">>)
             \o RenderCall(doc.calls[2]) \o Bytes(<<"]">>)

\* A request body: insignificant whitespace, then a JSON document.
JSONBody(lead, doc) == [text |-> lead \o Render(doc), doc |-> doc]

\* A request body that is no JSON.
InvalidBody(text) == [text |-> text, doc |-> DocInvalid]

\* The UTF-8 byte order mark.
BOM == <<239, 187, 191>>

\* Bodies clients send: single calls, batches of none, one and two calls,
\* with and without leading whitespace; a number; texts that are no JSON,
\* one of them starting with '[', one being a call after a BOM; nothing.
SampleBodies ==
    { JSONBody(<<>>, DocObject(MethodA)),
      JSONBody(<<32, 10>>, DocObject(MethodB)),
      JSONBody(<<>>, DocArray(<<MethodA, MethodB>>)),
      JSONBody(<<9, 32>>, DocArray(<<MethodA, MethodA>>)),
      JSONBody(<<>>, DocArray(<<MethodA>>)),
      JSONBody(<<>>, DocArray(<<>>)),
      JSONBody(<<>>, DocNumber),
      InvalidBody(Bytes(<<"h", "e", "l", "l", "o">>)),
      InvalidBody(Bytes(<<"[", "o", "o", "p", "s">>)),
      InvalidBody(BOM \o RenderCall(MethodA)),
      InvalidBody(<<>>) }

\* isBatch: the bytes it skips.
IsInsignificant(c) == c \in {32, 9, 10, 13}

\* isBatch: the first byte that is not insignificant whitespace is '['.
isBatch(raw) ==
    IF \E k \in 1..Len(raw) : ~IsInsignificant(raw[k])
    THEN raw[CHOOSE k \in 1..Len(raw) :
                 /\ ~IsInsignificant(raw[k])
                 /\ \A h \in 1..(k - 1) : IsInsignificant(raw[h])] = Code("[")
    ELSE FALSE

\* JSONRPCRequest{}.
ZeroRequest == [Method |-> <<>>]

\* requestResponseParserMiddleware before next(ctx): rc.Request.  A batch
\* is unmarshalled into the slice, which stays empty on an error; a single
\* call is unmarshalled into an element appended beforehand, which stays the
\* zero value on an error.
parseRequest(body) ==
    IF isBatch(body.text)
    THEN IF body.doc.shape = "array"
         THEN [k \in 1..Len(body.doc.calls) |-> [Method |-> body.doc.calls[k]]]
         ELSE <<>>
    ELSE IF body.doc.shape = "object"
         THEN <<[Method |-> body.doc.calls[1]]>>
         ELSE <<ZeroRequest>>

\* The metric families of metricsMiddleware and the method labels in use.
Families ==
    {"request_latency_seconds", "request_total", "client_request_error_total",
     "request_error_total", "response_size_bytes"}
MethodLabels == {MethodA, MethodB, batchMethod, <<>>}

\* No observation at all.
NoMetrics == [f \in Families |-> [m \in MethodLabels |-> 0]]

\* metricsMiddleware counting the calls whether or not the counts match.
metricsMiddlewareNoMismatch(request, response, status) ==
    LET single == Len(request) = 1 /\ Len(response) = 1
        summary(m) == IF single THEN m = request[1].Method ELSE m = batchMethod
        calls(m) == {k \in 1..Len(request) : request[k].Method = m}
        failed(m) == {k \in calls(m) : k <= Len(response) /\ HasError(response[k])}
    IN  [f \in Families |-> [m \in MethodLabels |->
            IF f \in {"request_latency_seconds", "response_size_bytes"}
            THEN IF summary(m) THEN 1 ELSE 0
            ELSE IF f = "request_error_total"
            THEN IF summary(m) /\ status # StatusOK THEN 1 ELSE 0
            ELSE IF f = "request_total"
            THEN Cardinality(calls(m))
            ELSE Cardinality(failed(m))]]

\* metricsMiddleware after next(ctx): the number of observations of each
\* family under each method label.
metricsMiddleware(request, response, status) ==
    LET single == Len(request) = 1 /\ Len(response) = 1
        matched == Len(request) = Len(response)
        summary(m) == IF single THEN m = request[1].Method ELSE m = batchMethod
        calls(m) == {k \in 1..Len(request) : request[k].Method = m}
        failed(m) == {k \in calls(m) : HasError(response[k])}
    IN  [f \in Families |-> [m \in MethodLabels |->
            IF f \in {"request_latency_seconds", "response_size_bytes"}
            THEN IF summary(m) THEN 1 ELSE 0
            ELSE IF f = "request_error_total"
            THEN IF summary(m) /\ status # StatusOK THEN 1 ELSE 0
            ELSE IF f = "request_total"
            THEN IF single \/ matched THEN Cardinality(calls(m)) ELSE 0
            ELSE IF single \/ matched THEN Cardinality(failed(m)) ELSE 0]]

\* What the upstream call of the envelope specification comes to: the
\* upstream responses, answers to a batch of one call among them.
EnvelopeResponses ==
    UpstreamResponses
        \cup [status : {StatusOK}, body : {BodyArray(<<NoError>>), BodyArray(<<ErrInvalidAddress>>)}]

EnvelopeUpstreams ==
    [outcome : {"resp"}, up : EnvelopeResponses]
        \cup [outcome : {"doErr", "copyErr"}, up : {[status |-> StatusOK, body |-> BodyInvalid]}]

NoEnvelope ==
    [done |-> FALSE, isBatched |-> FALSE, request |-> <<>>, forwarded |-> <<>>,
     status |-> StatusOK, response |-> <<>>, metrics |-> NoMetrics]

EnvelopeInit ==
    /\ \E body \in SampleBodies, u \in EnvelopeUpstreams, enabled \in BOOLEAN :
          cin = [body |-> body, outcome |-> u.outcome, up |-> u.up, MetricsEnabled |-> enabled]
    /\ cout = NoEnvelope
    /\ kind = RRName
    /\ cfg = PipelineCfg
    /\ providers = NewProviders(1)
    /\ failAt = [i \in {0} |-> -1]
    /\ currentIX = 0
    /\ now = 0
    /\ nrel = 0
    /\ nborrow = 0
    /\ scoreObs = NoObs
    /\ cl = <<>>
    /\ req = <<>>

\* The request passes the parser, the handler forwards ctx.Request.Body()
\* as it came, the parser reads the response and metricsMiddleware observes.
Envelope ==
    /\ ~cout.done
    /\ LET isBatched == isBatch(cin.body.text)
           request == parseRequest(cin.body)
           res == handler(cin.outcome, cin.up.status, cin.up.body)
           response == parseResponse(isBatched, res.body)
       IN  cout' = [done |-> TRUE, isBatched |-> isBatched, request |-> request,
                    forwarded |-> cin.body.text, status |-> res.status,
                    response |-> response,
                    metrics |-> IF cin.MetricsEnabled
                                THEN metricsMiddleware(request, response, res.status)
                                ELSE NoMetrics]
    /\ UNCHANGED <<kind, cfg, providers, currentIX, now, failAt, nrel, nborrow, scoreObs, cl, req, cin>>

EnvelopeNext == Envelope

SpecEnvelope == EnvelopeInit /\ [][EnvelopeNext]_vars

(***************************************************************************)
(* Claims checked under SpecEnvelope.                                      *)
(***************************************************************************)

\* The first byte of the text that is not whitespace, 0 if there is none.
FirstSignificant(text) ==
    IF \E k \in 1..Len(text) : ~IsInsignificant(text[k])
    THEN text[CHOOSE k \in 1..Len(text) :
                  /\ ~IsInsignificant(text[k])
                  /\ \A h \in 1..(k - 1) : IsInsignificant(text[h])]
    ELSE 0

\* C24: for every HTTP request whose body's first non-whitespace byte is '['
\* (a batch of any size, including a batch of one call),
\* request_latency_seconds, request_error_total and response_size_bytes are
\* recorded with the label method="batch" and never with a sub-call's
\* method; for a body starting with '{' they are recorded with the parsed
\* method of that single call.
C24_BatchLabel ==
    (cout.done /\ cin.MetricsEnabled) =>
        LET first == FirstSignificant(cin.body.text)
            label == IF first = Code("[") THEN batchMethod ELSE cin.body.doc.calls[1]
        IN  first \in {Code("["), Code("{")} =>
               \A m \in MethodLabels :
                  /\ cout.metrics["request_latency_seconds"][m] = IF m = label THEN 1 ELSE 0
                  /\ cout.metrics["response_size_bytes"][m] = IF m = label THEN 1 ELSE 0
                  /\ cout.metrics["request_error_total"][m]
                        = IF m = label /\ cout.status # StatusOK THEN 1 ELSE 0

\* C25: with metrics enabled, for every HTTP request that is forwarded to a
\* provider and whose body holds N JSON-RPC calls (N = 1 for a single call),
\* request_total is incremented exactly N times, once per call and labelled
\* with that call's method, whatever the upstream answers.
C25_RequestTotal ==
    (cout.done /\ cin.MetricsEnabled /\ cin.body.doc.shape \in {"object", "array"}) =>
        \A m \in MethodLabels :
            cout.metrics["request_total"][m]
                = Cardinality({k \in 1..Len(cin.body.doc.calls) : cin.body.doc.calls[k] = m})

\* The text after an optional byte order mark.
AfterBOM(text) == TrimPrefix(text, BOM)

\* C26: when the first non-whitespace byte of the client body (after an
\* optional UTF-8 BOM) is neither '[' nor '{', or the body does not decode
\* as JSON, the request context's requests list is empty, the request is
\* not failed by the parser, and the raw body is still forwarded unchanged
\* to the borrowed provider.
C26_InvalidBody ==
    (cout.done /\ (FirstSignificant(AfterBOM(cin.body.text)) \notin {Code("["), Code("{")}
                      \/ cin.body.doc.shape = "invalid")) =>
        /\ cout.request = <<>>
        /\ cout.forwarded = cin.body.text

\* C35: when the number of parsed requests differs from the number of
\* parsed responses, the metrics stage records only request_latency_seconds,
\* request_error_total (when the status is an error) and response_size_bytes
\* with method="batch", and increments neither request_total nor
\* client_request_error_total for that request.
C35_CountMismatch ==
    (cout.done /\ cin.MetricsEnabled /\ Len(cout.request) # Len(cout.response)) =>
        \A m \in MethodLabels :
            /\ cout.metrics["request_latency_seconds"][m] = IF m = batchMethod THEN 1 ELSE 0
            /\ cout.metrics["response_size_bytes"][m] = IF m = batchMethod THEN 1 ELSE 0
            /\ cout.metrics["request_error_total"][m]
                  = IF m = batchMethod /\ cout.status # StatusOK THEN 1 ELSE 0
            /\ cout.metrics["request_total"][m] = 0
            /\ cout.metrics["client_request_error_total"][m] = 0

\* A batch of two calls answered with an error status and a body that is no
\* array has been observed.
C35_Witness ==
    /\ cout.done
    /\ cin.MetricsEnabled
    /\ Len(cout.request) = 2
    /\ Len(cout.response) = 0
    /\ cout.status # StatusOK
    /\ cout.metrics["request_error_total"][batchMethod] = 1

(***************************************************************************)
(* Websocket specification: one upgrade request and the session it starts. *)
(* wsUpgrader runs in the request handler, under recoverHandler; the       *)
(* callback handed to upgrader.Upgrade (wsLoadBalancerMiddleware, then     *)
(* wsHandler) runs on the hijacked connection after the request handler    *)
(* has returned and the 101 response is written; the two pumps and the     *)
(* supervisor run in goroutines of their own (wg.Go).                      *)
(***************************************************************************)
MaxMessages == 2          \* messages read by the pumps in one session
MaxWSProviders == 2       \* providers configured for the chain

StatusSwitchingProtocols == 101
CloseNormalClosure == 1000
CloseGoingAway == 1001
CloseAbnormalClosure == 1006
CloseInternalServerErr == 1011

\* The statuses a refused handshake leaves in the response.
HandshakeErrors == {400, 403}

\* websocket.FormatCloseMessage(code, text): the payload of a close frame
\* with a status; the text is not modelled.
FormatCloseMessage(code) == <<code>>

\* WriteMessage(websocket.CloseMessage, nil): the payload of a bare frame.
BareCloseMessage == <<>>

\* Errors of ReadJSON and WriteJSON: a *websocket.CloseError with its code,
\* or any other error (a network error, ErrCloseSent, a JSON syntax error).
CloseError(code) == [close |-> TRUE, code |-> code]
OtherError == [close |-> FALSE, code |-> 0]

\* What a read can fail with: the peer closed with 1000 or 1001, the
\* connection broke without a close frame (1006), another error.
ReadErrors ==
    {CloseError(CloseNormalClosure), CloseError(CloseGoingAway),
     CloseError(CloseAbnormalClosure), OtherError}

\* websocket.IsCloseError(err, codes...).
IsCloseError(err, codes) == err.close /\ err.code \in codes

\* nonBlockingChanSend on a channel of capacity one: the error is dropped
\* when the slot is taken.
nonBlockingChanSend(errChan, err) == IF Len(errChan) = 0 THEN <<err>> ELSE errChan

\* The pumps: client to upstream, upstream to client.
Pumps == {"c2u", "u2c"}

\* wsPipe's readErrChan and writeErrChan of each pump, as wsHandler passes
\* them.
readErrChan(P) == IF P = "c2u" THEN "clientError" ELSE "upstreamError"
writeErrChan(P) == IF P = "c2u" THEN "upstreamError" ELSE "clientError"

\* The connection a pump writes to.
writeConn(P) == IF P = "c2u" THEN "upstream" ELSE "client"

\* The counters the session touches.
NoCounters ==
    [request_total |-> 0, response_size_bytes |-> 0,
     request_error_total |-> 0, client_request_error_total |-> 0]

\* observeMetrics of each pump.
observeMetrics(P, counters) ==
    IF P = "c2u"
    THEN [counters EXCEPT !.request_total = @ + 1]
    ELSE [counters EXCEPT !.response_size_bytes = @ + 1]

\* No error handled yet.
NoHandled == [from |-> "none", err |-> OtherError]

\* The session before the upgrade request arrives.
NoSession ==
    [pc |-> "idle", status |-> StatusOK, body |-> <<>>, upgraded |-> FALSE,
     open |-> [c \in {"client", "upstream"} |-> FALSE],
     frames |-> [c \in {"client", "upstream"} |-> <<>>],
     errs |-> [c \in {"clientError", "upstreamError"} |-> <<>>],
     pump |-> [P \in Pumps |-> "idle"], sup |-> "idle",
     held |-> EmptyHandle, released |-> FALSE, dialed |-> FALSE,
     msgs |-> 0, reported |-> FALSE, dropped |-> 0, nhandled |-> 0,
     handled |-> NoHandled, panicked |-> "none"]

WSInit ==
    /\ kind \in {RRName, LCName, P2CEWMAName, ""}
    /\ cfg = PipelineCfg
    /\ \E n \in 1..MaxWSProviders :
          /\ providers = NewProviders(n)
          /\ failAt = [i \in 0..(n - 1) |-> -1]
    /\ currentIX = 0
    /\ now = 0
    /\ nrel = 0
    /\ nborrow = 0
    /\ scoreObs = NoObs
    /\ cl = <<>>
    /\ req = NoSession
    /\ cin = NoInput
    /\ cout = NoCounters

\* transportRouter hands a websocket upgrade request for the chain's path to
\* the websocket pipeline; logging, auth and the router pass it on.
WSArrive ==
    /\ req.pc = "idle"
    /\ req' = [req EXCEPT !.pc = "upgrader"]
    /\ UNCHANGED <<kind, cfg, providers, currentIX, now, failAt, nrel, nborrow, scoreObs, cl, cin, cout>>

\* A stage that runs in the request handler panics: recoverHandler's
\* deferred function answers 500.
WSRequestPanic ==
    /\ req.pc = "upgrader"
    /\ req' = [req EXCEPT !.pc = "done", !.panicked = "request",
                          !.status = StatusInternalServerError,
                          !.body = BodyText(InternalServerErrorText)]
    /\ UNCHANGED <<kind, cfg, providers, currentIX, now, failAt, nrel, nborrow, scoreObs, cl, cin, cout>>

\* wsUpgrader: both maps hold the chain's path whatever its balancer, so
\* upgrader.Upgrade is called; a good handshake is answered 101 and the
\* callback is left to run on the hijacked connection, a refused one is
\* answered by the upgrader and only logged.
WSUpgrade(handshake) ==
    /\ req.pc = "upgrader"
    /\ IF handshake
       THEN req' = [req EXCEPT !.pc = "lb", !.status = StatusSwitchingProtocols,
                               !.upgraded = TRUE, !.open["client"] = TRUE]
       ELSE \E st \in HandshakeErrors :
               req' = [req EXCEPT !.pc = "done", !.status = st]
    /\ UNCHANGED <<kind, cfg, providers, currentIX, now, failAt, nrel, nborrow, scoreObs, cl, cin, cout>>

\* wsLoadBalancerMiddleware up to next(ctx).  Only round-robin and
\* least-connection are looked up; for another balancer lb is nil, a close
\* frame with CloseInternalServerErr is written and the callback returns,
\* which closes the client connection.  Otherwise a provider is borrowed
\* and the release is deferred.
WSLoadBalancer ==
    /\ req.pc = "lb"
    /\ IF kind \notin {RRName, LCName}
       THEN /\ req' = [req EXCEPT !.pc = "done",
                                  !.frames["client"] = Append(@, FormatCloseMessage(CloseInternalServerErr)),
                                  !.open["client"] = FALSE]
            /\ UNCHANGED <<providers, currentIX, nborrow>>
       ELSE \E p \in BorrowPicks :
               /\ req' = [req EXCEPT !.pc = "dial", !.held = p]
               /\ providers' = IF kind = LCName
                               THEN [providers EXCEPT ![p] = inFlightInc(@)]
                               ELSE providers
               /\ currentIX' = IF kind = RRName
                               THEN advanceIX(currentIX, NProviders)
                               ELSE currentIX
               /\ nborrow' = nborrow + 1
    /\ UNCHANGED <<kind, cfg, now, failAt, nrel, scoreObs, cl, cin, cout>>

\* A stage of the callback panics: wsLoadBalancerMiddleware before it has
\* borrowed, or wsHandler before the pumps are started.  The deferred calls
\* of the goroutine run while the panic unwinds it, release(true, 0) when a
\* provider is borrowed and then clientConn.Close(); no recover is deferred
\* on that goroutine, so the process ends.
WSSessionPanic ==
    /\ req.pc \in {"lb", "dial"}
    /\ IF req.pc = "dial"
       THEN /\ req' = [req EXCEPT !.pc = "crashed", !.panicked = "session",
                                  !.released = TRUE, !.open["client"] = FALSE]
            /\ providers' = IF kind = LCName
                            THEN [providers EXCEPT ![req.held] = inFlightDec(@)]
                            ELSE providers
            /\ nrel' = nrel + 1
       ELSE /\ req' = [req EXCEPT !.pc = "crashed", !.panicked = "session",
                                  !.open["client"] = FALSE]
            /\ UNCHANGED <<providers, nrel>>
    /\ UNCHANGED <<kind, cfg, currentIX, now, failAt, nborrow, scoreObs, cl, cin, cout>>

\* wsHandler up to wg.Wait(): the dial fails and a bare close frame goes to
\* the client, or the pumps and the supervisor are started.
WSDial(ok) ==
    /\ req.pc = "dial"
    /\ IF ok
       THEN req' = [req EXCEPT !.pc = "session", !.dialed = TRUE, !.open["upstream"] = TRUE,
                               !.pump = [P \in Pumps |-> "read"], !.sup = "select"]
       ELSE req' = [req EXCEPT !.pc = "unwind",
                               !.frames["client"] = Append(@, BareCloseMessage)]
    /\ UNCHANGED <<kind, cfg, providers, currentIX, now, failAt, nrel, nborrow, scoreObs, cl, cin, cout>>

\* wsPipe: ReadJSON returns a message.  It returns when the peer has sent
\* one.
PumpReadMessage(P) ==
    /\ req.pc = "session"
    /\ req.pump[P] = "read"
    /\ req.msgs < MaxMessages
    /\ req' = [req EXCEPT !.pump[P] = "observe", !.msgs = @ + 1]
    /\ UNCHANGED <<kind, cfg, providers, currentIX, now, failAt, nrel, nborrow, scoreObs, cl, cin, cout>>

\* wsPipe: ReadJSON fails; the error is offered to readErrChan and the pump
\* returns.  It fails when the peer closes, breaks the connection or sends
\* what is no JSON.
PumpReadError(P, err) ==
    /\ req.pc = "session"
    /\ req.pump[P] = "read"
    /\ req' = [req EXCEPT !.pump[P] = "exited", !.reported = TRUE,
                          !.dropped = IF Len(req.errs[readErrChan(P)]) = 0 THEN @ ELSE @ + 1,
                          !.errs[readErrChan(P)] = nonBlockingChanSend(@, err)]
    /\ UNCHANGED <<kind, cfg, providers, currentIX, now, failAt, nrel, nborrow, scoreObs, cl, cin, cout>>

\* wsPipe: observeMetrics(ctx, msg).
PumpObserve(P) ==
    /\ req.pc = "session"
    /\ req.pump[P] = "observe"
    /\ req' = [req EXCEPT !.pump[P] = "write"]
    /\ cout' = observeMetrics(P, cout)
    /\ UNCHANGED <<kind, cfg, providers, currentIX, now, failAt, nrel, nborrow, scoreObs, cl, cin>>

\* The connection the supervisor writes its close frame to: the client's
\* for an error taken from upstreamError, the upstream's for one taken from
\* clientError.
SupervisorConn == IF req.handled.from = "upstream" THEN "client" ELSE "upstream"

\* The supervisor and pump P are both inside a write to one connection.  The
\* connection takes one writer at a time: the two frames may both go out, or
\* the connection detects the second writer and panics.
ConcurrentWrite(P) ==
    /\ req.sup = "writing"
    /\ req.pump[P] = "writing"
    /\ SupervisorConn = writeConn(P)

\* A pump panics while it handles a message, or inside a write concurrent
\* with the supervisor's: no recover is deferred on its goroutine, the
\* process ends.
PumpPanic(P) ==
    /\ req.pc = "session"
    /\ req.pump[P] = "observe" \/ ConcurrentWrite(P)
    /\ req' = [req EXCEPT !.pc = "crashed", !.panicked = "pump"]
    /\ UNCHANGED <<kind, cfg, providers, currentIX, now, failAt, nrel, nborrow, scoreObs, cl, cin, cout>>

\* wsPipe: WriteJSON(msg) is entered; the pump is writing to its writeConn
\* until the call returns.
PumpWriteBegin(P) ==
    /\ req.pc = "session"
    /\ req.pump[P] = "write"
    /\ req' = [req EXCEPT !.pump[P] = "writing"]
    /\ UNCHANGED <<kind, cfg, providers, currentIX, now, failAt, nrel, nborrow, scoreObs, cl, cin, cout>>

\* wsPipe: WriteJSON(msg) returns.  It fails once a close frame was written
\* to the connection, and may fail for the network; the error is offered to
\* writeErrChan and the pump returns.
PumpWrite(P, ok) ==
    /\ req.pc = "session"
    /\ req.pump[P] = "writing"
    /\ ok => req.frames[writeConn(P)] = <<>>
    /\ IF ok
       THEN req' = [req EXCEPT !.pump[P] = "read"]
       ELSE req' = [req EXCEPT !.pump[P] = "exited", !.reported = TRUE,
                               !.dropped = IF Len(req.errs[writeErrChan(P)]) = 0 THEN @ ELSE @ + 1,
                               !.errs[writeErrChan(P)] = nonBlockingChanSend(@, OtherError)]
    /\ UNCHANGED <<kind, cfg, providers, currentIX, now, failAt, nrel, nborrow, scoreObs, cl, cin, cout>>

\* The supervisor answering every upstream error with 'going away'.
upstreamCloseStatusAway(err) == CloseGoingAway

\* The close status the supervisor sends to the client for an upstream
\* error.
upstreamCloseStatus(err) ==
    IF ~IsCloseError(err, {CloseAbnormalClosure, CloseNormalClosure})
    THEN CloseGoingAway
    ELSE CloseNormalClosure

\* The supervisor's select takes an error from upstreamError or from
\* clientError.  An upstream error that is no clean close is counted before
\* the close frame is written, a client error after.
SupervisorReceive(from) ==
    /\ req.pc = "session"
    /\ req.sup = "select"
    /\ LET ch == IF from = "upstream" THEN "upstreamError" ELSE "clientError"
       IN  /\ req.errs[ch] # <<>>
           /\ LET err == Head(req.errs[ch])
              IN  req' = [req EXCEPT
                            !.sup = IF from = "upstream"
                                        /\ ~IsCloseError(err, {CloseAbnormalClosure, CloseNormalClosure})
                                    THEN "count" ELSE "write",
                            !.errs[ch] = <<>>,
                            !.nhandled = @ + 1,
                            !.handled = [from |-> from, err |-> err]]
    /\ UNCHANGED <<kind, cfg, providers, currentIX, now, failAt, nrel, nborrow, scoreObs, cl, cin, cout>>

\* The supervisor increments metrics.RequestError (upstream branch, then it
\* goes on to write) or metrics.ClientRequestError (client branch, then it
\* returns).
SupervisorCount ==
    /\ req.pc = "session"
    /\ req.sup = "count"
    /\ IF req.handled.from = "upstream"
       THEN /\ cout' = [cout EXCEPT !.request_error_total = @ + 1]
            /\ req' = [req EXCEPT !.sup = "write"]
       ELSE /\ cout' = [cout EXCEPT !.client_request_error_total = @ + 1]
            /\ req' = [req EXCEPT !.sup = "exited"]
    /\ UNCHANGED <<kind, cfg, providers, currentIX, now, failAt, nrel, nborrow, scoreObs, cl, cin>>

\* The supervisor enters WriteMessage(websocket.CloseMessage, ...) on
\* SupervisorConn.
SupervisorWriteBegin ==
    /\ req.pc = "session"
    /\ req.sup = "write"
    /\ req' = [req EXCEPT !.sup = "writing"]
    /\ UNCHANGED <<kind, cfg, providers, currentIX, now, failAt, nrel, nborrow, scoreObs, cl, cin, cout>>

\* The supervisor's WriteMessage returns, its error ignored: the close frame
\* is on the connection.  Inside a concurrent write it may panic instead; no
\* recover is deferred on the supervisor's goroutine, the process ends.
SupervisorWrite(panics) ==
    /\ req.pc = "session"
    /\ req.sup = "writing"
    /\ panics => \E P \in Pumps : ConcurrentWrite(P)
    /\ IF panics
       THEN req' = [req EXCEPT !.pc = "crashed", !.panicked = "supervisor"]
       ELSE req' = [req EXCEPT
                      !.sup = IF req.handled.from = "upstream" THEN "exited" ELSE "count",
                      !.frames[SupervisorConn] =
                          Append(@, IF req.handled.from = "upstream"
                                    THEN FormatCloseMessage(upstreamCloseStatus(req.handled.err))
                                    ELSE BareCloseMessage)]
    /\ UNCHANGED <<kind, cfg, providers, currentIX, now, failAt, nrel, nborrow, scoreObs, cl, cin, cout>>

\* wg.Wait() returns when the pumps and the supervisor have returned;
\* wsHandler returns and its deferred providerConn.Close() runs.
WSJoin ==
    /\ req.pc = "session"
    /\ \A P \in Pumps : req.pump[P] = "exited"
    /\ req.sup = "exited"
    /\ req' = [req EXCEPT !.pc = "unwind", !.open["upstream"] = FALSE]
    /\ UNCHANGED <<kind, cfg, providers, currentIX, now, failAt, nrel, nborrow, scoreObs, cl, cin, cout>>

\* wsLoadBalancerMiddleware returns: the deferred release(true, 0) runs;
\* then the callback returns and its deferred clientConn.Close() runs.
WSUnwind ==
    /\ req.pc = "unwind"
    /\ req' = [req EXCEPT !.pc = "done", !.released = TRUE, !.open["client"] = FALSE]
    /\ providers' = IF kind = LCName
                    THEN [providers EXCEPT ![req.held] = inFlightDec(@)]
                    ELSE providers
    /\ nrel' = nrel + 1
    /\ UNCHANGED <<kind, cfg, currentIX, now, failAt, nborrow, scoreObs, cl, cin, cout>>

WSNext ==
    \/ WSArrive
    \/ WSRequestPanic
    \/ \E handshake \in BOOLEAN : WSUpgrade(handshake)
    \/ WSLoadBalancer
    \/ WSSessionPanic
    \/ \E ok \in BOOLEAN : WSDial(ok)
    \/ \E P \in Pumps : PumpReadMessage(P)
    \/ \E P \in Pumps, err \in ReadErrors : PumpReadError(P, err)
    \/ \E P \in Pumps : PumpObserve(P)
    \/ \E P \in Pumps : PumpPanic(P)
    \/ \E P \in Pumps : PumpWriteBegin(P)
    \/ \E P \in Pumps, ok \in BOOLEAN : PumpWrite(P, ok)
    \/ \E from \in {"upstream", "client"} : SupervisorReceive(from)
    \/ SupervisorCount
    \/ SupervisorWriteBegin
    \/ \E panics \in BOOLEAN : SupervisorWrite(panics)
    \/ WSJoin
    \/ WSUnwind

SpecWS == WSInit /\ [][WSNext]_vars

\* The steps of the goroutine that serves the request and then the
\* callback, and the steps of each pump that do not wait for its peer.
WSMain ==
    \/ WSArrive
    \/ \E handshake \in BOOLEAN : WSUpgrade(handshake)
    \/ WSLoadBalancer
    \/ \E ok \in BOOLEAN : WSDial(ok)
    \/ WSJoin
    \/ WSUnwind
PumpStep(P) ==
    \/ PumpObserve(P)
    \/ PumpWriteBegin(P)
    \/ \E ok \in BOOLEAN : PumpWrite(P, ok)

SupervisorStep ==
    \/ \E from \in {"upstream", "client"} : SupervisorReceive(from)
    \/ SupervisorCount
    \/ SupervisorWriteBegin
    \/ SupervisorWrite(FALSE)

\* Every goroutine that can take a step is scheduled.  A read returns only
\* when the peer sends or closes, and a panic need not happen: neither is
\* fair.
SpecWSFair ==
    /\ WSInit
    /\ [][WSNext]_vars
    /\ WF_vars(WSMain)
    /\ \A P \in Pumps : WF_vars(PumpStep(P))
    /\ WF_vars(SupervisorStep)

(***************************************************************************)
(* Claims checked under SpecWS and SpecWSFair.                             *)
(***************************************************************************)

C27_P2CRejected ==
    (kind = P2CEWMAName /\ req.pc \notin {"idle", "upgrader"}
        /\ req.status \notin HandshakeErrors) =>
        /\ req.status = StatusInternalServerError
        /\ ~req.upgraded
        /\ nborrow = 0
        /\ ~req.dialed

\* C28: for a websocket session the borrowed provider is released with
\* (ok=true, latency=0) immediately once the upgrade has completed, before
\* the session's pumps run; on a least-connection chain the provider's
\* inflight count therefore does not stay incremented for the lifetime of
\* the session.
C28_ReleasedOnUpgrade ==
    req.pc = "session" =>
        /\ req.released
        /\ kind = LCName => providers[req.held].inFlight = 0

\* C29: in every websocket session, once either pump has reported its first
\* error, the supervisor closes both sides, and both pumps and the
\* supervisor eventually exit so that the session handler returns and both
\* the client and the upstream connection are closed, whatever the remote
\* peers do afterwards (a process ended by a panic aside).
C29_SessionEnds ==
    req.reported ~>
        \/ req.pc = "crashed"
        \/ /\ req.pc = "done"
           /\ \A P \in Pumps : req.pump[P] = "exited"
           /\ req.sup = "exited"
           /\ ~req.open["client"]
           /\ ~req.open["upstream"]

\* What the supervisor does with the one error it takes, given the upstream
\* errors it answers with a normal closure.
SupervisorHandles(cleanCloses) ==
    /\ req.nhandled <= 1
    /\ req.handled.from = "none" =>
          /\ req.frames["upstream"] = <<>>
          /\ cout.request_error_total = 0
          /\ cout.client_request_error_total = 0
    /\ req.handled.from = "upstream" =>
          /\ req.frames["upstream"] = <<>>
          /\ cout.client_request_error_total = 0
          /\ req.sup = "exited" =>
                IF req.handled.err \in cleanCloses
                THEN /\ req.frames["client"] = <<FormatCloseMessage(CloseNormalClosure)>>
                     /\ cout.request_error_total = 0
                ELSE /\ req.frames["client"] = <<FormatCloseMessage(CloseGoingAway)>>
                     /\ cout.request_error_total = 1
    /\ req.handled.from = "client" =>
          /\ req.frames["client"] = <<>>
          /\ cout.request_error_total = 0
          /\ req.sup = "exited" =>
                /\ req.frames["upstream"] = <<BareCloseMessage>>
                /\ cout.client_request_error_total = 1
    /\ req.pc \in {"unwind", "done"} /\ req.dialed => req.sup = "exited"
    /\ \A c \in DOMAIN req.errs : Len(req.errs[c]) <= 1
    /\ req.pc = "session" =>
          Cardinality({P \in Pumps : req.pump[P] = "exited"})
              = req.nhandled + Len(req.errs["clientError"])
                    + Len(req.errs["upstreamError"]) + req.dropped

\* C30 as stated: the websocket supervisor handles exactly one error per
\* session, the first one available on either error channel: for an
\* upstream error that is not a normal close it increments
\* request_error_total and sends the client a close frame with code 'going
\* away'; for a clean upstream close it sends 'normal closure' and
\* increments no error counter; for a client error it sends the upstream a
\* bare close frame and increments client_request_error_total.  Errors
\* reported after the first never block the reporting pump.
C30_SupervisorAsStated ==
    req.pc \in {"session", "unwind", "done"} =>
        SupervisorHandles({CloseError(CloseNormalClosure)})

\* C30, amended: as stated, with an upstream close error of code 1006
\* (abnormal closure: the connection broke without a close frame) answered
\* like one of code 1000, by 'normal closure' and no error counter.
C30_Supervisor ==
    req.pc \in {"session", "unwind", "done"} =>
        SupervisorHandles({CloseError(CloseNormalClosure), CloseError(CloseAbnormalClosure)})

\* The supervisor has answered an upstream error other than a close with
\* 'going away', and a later error found the slot of its channel taken.
C30_Witness ==
    /\ req.handled = [from |-> "upstream", err |-> OtherError]
    /\ req.frames["client"] = <<FormatCloseMessage(CloseGoingAway)>>
    /\ cout.request_error_total = 1
    /\ req.dropped > 0
    /\ req.pc = "done"

\* C38: within one websocket session, at no time do two tasks write to the
\* same websocket connection concurrently: the supervisor's close frame to
\* the client (respectively upstream) connection is never written while the
\* upstream-to-client (respectively client-to-upstream) pump is writing a
\* message to that same connection.
C38_SingleWriter == \A P \in Pumps : ~ConcurrentWrite(P)

(***************************************************************************)
(* Shutdown specification: startstop.RunGracefull over the registered      *)
(* services.  The clock counts seconds; a Stop call returns when its       *)
(* service lets it, possibly never.                                        *)
(***************************************************************************)
NumServices == 3          \* services handed to RunGracefull
MaxClock == 7             \* seconds the clock runs for

\* shutdownTimeout, in seconds.
shutdownTimeout == 5

Services == 1..NumServices

\* RunGracefull after its services were started, waiting on ctx.Done().
Running ==
    [pc |-> "running", stop |-> [s \in Services |-> "idle"],
     calls |-> [s \in Services |-> 0], timerAt |-> -1, waiter |-> "idle",
     done |-> FALSE, via |-> "none", returnedAt |-> -1]

ShutdownInit ==
    /\ req = Running
    /\ now = 0
    /\ kind = RRName
    /\ cfg = PipelineCfg
    /\ providers = NewProviders(1)
    /\ failAt = [i \in {0} |-> -1]
    /\ currentIX = 0
    /\ nrel = 0
    /\ nborrow = 0
    /\ scoreObs = NoObs
    /\ cl = <<>>
    /\ cin = NoInput
    /\ cout = NoOutput

\* A second passes.
ClockTick ==
    /\ now < MaxClock
    /\ now' = now + 1
    /\ UNCHANGED <<kind, cfg, providers, currentIX, failAt, nrel, nborrow, scoreObs, cl, req, cin, cout>>

\* A timer that never ticks.
timerNever(timerAt, t) == FALSE

\* The timer of time.Tick(shutdownTimeout) has a tick ready.
timerFired(timerAt, t) == timerAt >= 0 /\ t >= timerAt + shutdownTimeout

\* ctx.Done() is closed: the timer is created, wg.Go(srv.Stop) starts one
\* goroutine per service, another goroutine waits for the group, and
\* RunGracefull reaches its select.
Cancel ==
    /\ req.pc = "running"
    /\ now + shutdownTimeout <= MaxClock
    /\ req' = [req EXCEPT !.pc = "select", !.timerAt = now,
                          !.stop = [s \in Services |-> "running"],
                          !.calls = [s \in Services |-> req.calls[s] + 1],
                          !.waiter = "waiting"]
    /\ UNCHANGED <<kind, cfg, providers, currentIX, now, failAt, nrel, nborrow, scoreObs, cl, cin, cout>>

\* srv.Stop() of one service returns.
StopReturns(s) ==
    /\ req.stop[s] = "running"
    /\ req' = [req EXCEPT !.stop[s] = "returned"]
    /\ UNCHANGED <<kind, cfg, providers, currentIX, now, failAt, nrel, nborrow, scoreObs, cl, cin, cout>>

\* wg.Wait() returns when every Stop has returned; done is closed.
WaitReturns ==
    /\ req.waiter = "waiting"
    /\ \A s \in Services : req.stop[s] = "returned"
    /\ req' = [req EXCEPT !.waiter = "exited", !.done = TRUE]
    /\ UNCHANGED <<kind, cfg, providers, currentIX, now, failAt, nrel, nborrow, scoreObs, cl, cin, cout>>

\* select: case <-done.
SelectDone ==
    /\ req.pc = "select"
    /\ req.done
    /\ req' = [req EXCEPT !.pc = "returned", !.via = "done", !.returnedAt = now]
    /\ UNCHANGED <<kind, cfg, providers, currentIX, now, failAt, nrel, nborrow, scoreObs, cl, cin, cout>>

\* select: case <-timer.
SelectTimer ==
    /\ req.pc = "select"
    /\ timerFired(req.timerAt, now)
    /\ req' = [req EXCEPT !.pc = "returned", !.via = "timer", !.returnedAt = now]
    /\ UNCHANGED <<kind, cfg, providers, currentIX, now, failAt, nrel, nborrow, scoreObs, cl, cin, cout>>

ShutdownNext ==
    \/ ClockTick
    \/ Cancel
    \/ \E s \in Services : StopReturns(s)
    \/ WaitReturns
    \/ SelectDone
    \/ SelectTimer

SpecShutdown == ShutdownInit /\ [][ShutdownNext]_vars

\* Time passes, and the goroutines of RunGracefull are scheduled; whether
\* the context is cancelled and whether a Stop returns is up to others.
SpecShutdownFair ==
    /\ ShutdownInit
    /\ [][ShutdownNext]_vars
    /\ WF_vars(ClockTick)
    /\ WF_vars(WaitReturns)
    /\ WF_vars(SelectDone \/ SelectTimer)

(***************************************************************************)
(* Claims checked under SpecShutdownFair.                                  *)
(***************************************************************************)

\* What holds of RunGracefull at every moment: no Stop before the
\* cancellation, one Stop call per service after it, and a return only with
\* every Stop returned or with the timer fired.
ShutdownSafe ==
    /\ req.pc = "running" => \A s \in Services : req.calls[s] = 0
    /\ req.pc # "running" => \A s \in Services : req.calls[s] = 1
    /\ req.via = "done" => \A s \in Services : req.stop[s] = "returned"
    /\ req.via = "timer" => req.returnedAt >= req.timerAt + shutdownTimeout
    /\ req.pc = "returned" <=> req.via # "none"

\* C31: after the process context is cancelled, RunGracefull invokes Stop
\* exactly once on every registered service and returns as soon as either
\* all Stop calls have returned or the 5-second shutdown timer has fired,
\* whichever happens first; it returns even if some Stop call never returns.
C31_GracefulShutdown ==
    /\ []ShutdownSafe
    /\ (req.pc = "select") ~> (req.pc = "returned")

\* RunGracefull has returned on the timer with a Stop call still running.
C31_Witness ==
    /\ req.pc = "returned"
    /\ req.via = "timer"
    /\ \E s \in Services : req.stop[s] = "running"
    /\ \E s \in Services : req.stop[s] = "returned"

(***************************************************************************)
(* Composition specification: the HTTP handler chain built in New.  Each   *)
(* middleware does its part before next(ctx), calls next(ctx) unless it    *)
(* answers itself, and does the rest when next(ctx) has returned.  The     *)
(* events are logged in the order they happen.                             *)
(***************************************************************************)

\* The HTTP chain of New, outermost first.
httpChain ==
    <<"recoverHandler", "transportRouter", "healthzProbeMiddleware", "loggingMiddleware",
      "metricsMiddleware", "authMiddleware", "routerHandler",
      "loadBalancerMiddleware", "requestResponseParserMiddleware", "handler">>

\* What a stage does before it decides whether to go on: authMiddleware
\* sets the client identity ahead of its tests.
atEntry(stage) ==
    IF stage = "authMiddleware" THEN <<"client">> ELSE <<>>

\* What a stage that goes on does before it calls next(ctx); the handler
\* has no next.
beforeNext(stage) ==
    IF stage = "routerHandler" THEN <<"chain">>
    ELSE IF stage = "loadBalancerMiddleware" THEN <<"balancer", "borrow">>
    ELSE IF stage = "requestResponseParserMiddleware" THEN <<"requests">>
    ELSE IF stage = "handler" THEN <<"forward">>
    ELSE <<>>

\* What a stage does when next(ctx) has returned.
afterNext(stage, metricsEnabled) ==
    IF stage = "requestResponseParserMiddleware" THEN <<"responses">>
    ELSE IF stage = "loadBalancerMiddleware" THEN <<"release">>
    ELSE IF stage = "metricsMiddleware" /\ metricsEnabled THEN <<"metrics">>
    ELSE IF stage = "loggingMiddleware" THEN <<"log">>
    ELSE <<>>

\* Whether a stage goes on for the request, or answers and returns.
goesOn(stage, in) ==
    IF stage = "transportRouter" THEN ~in.websocket
    ELSE IF stage = "healthzProbeMiddleware" THEN ~in.healthz
    ELSE IF stage = "authMiddleware" THEN in.authorized
    ELSE IF stage = "routerHandler" THEN in.known
    ELSE IF stage = "loadBalancerMiddleware"
    THEN balancerRegistered([BalancerType |-> in.balancerType])
    ELSE TRUE

\* The requests: a websocket upgrade or not, the health probe or not,
\* credentials accepted or not, a configured path or not, the balancer type
\* of the path's chain (one New registers a balancer for, or none), a
\* handler that panics or not; metrics enabled or not.
ChainInputs ==
    [websocket : BOOLEAN, healthz : BOOLEAN, authorized : BOOLEAN, known : BOOLEAN,
     balancerType : {RRName, LCName, P2CEWMAName, ""},
     panics : BOOLEAN, metricsEnabled : BOOLEAN]

ChainInit ==
    /\ cin \in ChainInputs
    /\ req = [depth |-> 1, dir |-> "down", events |-> <<>>]
    /\ now = 0
    /\ kind = cin.balancerType
    /\ cfg = PipelineCfg
    /\ providers = NewProviders(1)
    /\ failAt = [i \in {0} |-> -1]
    /\ currentIX = 0
    /\ nrel = 0
    /\ nborrow = 0
    /\ scoreObs = NoObs
    /\ cl = <<>>
    /\ cout = NoOutput

\* A stage is entered: it answers and returns, or does its first part and
\* calls the next stage; the handler does its work and returns, or panics,
\* which unwinds to recoverHandler past the stages in between.
EnterStage ==
    /\ req.dir = "down"
    /\ LET stage == httpChain[req.depth]
       IN  IF ~goesOn(stage, cin)
           THEN req' = [req EXCEPT !.events = @ \o atEntry(stage), !.dir = "up",
                                   !.depth = @ - 1]
           ELSE IF req.depth < Len(httpChain)
           THEN req' = [req EXCEPT !.events = @ \o atEntry(stage) \o beforeNext(stage),
                                   !.depth = @ + 1]
           ELSE IF cin.panics
           THEN req' = [req EXCEPT !.dir = "done", !.depth = 0]
           ELSE req' = [req EXCEPT !.events = @ \o atEntry(stage) \o beforeNext(stage),
                                   !.dir = "up", !.depth = @ - 1]
    /\ UNCHANGED <<kind, cfg, providers, currentIX, now, failAt, nrel, nborrow, scoreObs, cl, cin, cout>>

\* next(ctx) has returned to a stage: it does the rest and returns.
LeaveStage ==
    /\ req.dir = "up"
    /\ IF req.depth = 0
       THEN req' = [req EXCEPT !.dir = "done"]
       ELSE req' = [req EXCEPT !.events = @ \o afterNext(httpChain[req.depth], cin.metricsEnabled),
                               !.depth = @ - 1]
    /\ UNCHANGED <<kind, cfg, providers, currentIX, now, failAt, nrel, nborrow, scoreObs, cl, cin, cout>>

ChainNext ==
    \/ EnterStage
    \/ LeaveStage

SpecChain == ChainInit /\ [][ChainNext]_vars

(***************************************************************************)
(* Claims checked under SpecChain.                                         *)
(***************************************************************************)

\* Sequence s without the elements outside set keep.
Only(s, keep) == SelectSeq(s, LAMBDA e : e \in keep)

\* The events of a request that reached the forwarder come in the given
\* order, all of them once the request is done.
EventsFollow(order) ==
    (\E k \in 1..Len(req.events) : req.events[k] = "forward") =>
        /\ \E n \in 0..Len(order) : req.events = SubSeq(order, 1, n)
        /\ req.dir = "done" => req.events = order

\* C32 as stated: for an HTTP request that reaches the forwarder, the
\* pipeline events occur in this order: auth sets the client identity, the
\* path router sets the chain, the request envelope is parsed, the balancer
\* is selected and a provider borrowed, the request is forwarded, the
\* response envelope is recorded, the provider is released with the
\* classified outcome, metrics are emitted, the log record is written.
C32_OrderAsStated ==
    EventsFollow(Only(<<"client", "chain", "requests", "balancer", "borrow", "forward",
                        "responses", "release", "metrics", "log">>,
                      IF cin.metricsEnabled THEN STRING ELSE STRING \ {"metrics"}))

(***************************************************************************)
(* Round-robin specification: NumCallers goroutines call RoundRobin.Borrow *)
(* concurrently, each statement of the body being one step.  The log holds *)
(* the providers in the order the payload slice was indexed, which is the  *)
(* order in which the mutex was acquired.                                  *)
(***************************************************************************)
MaxRRBorrows == 6         \* Borrow calls made in one behaviour
MaxRRProviders == 3       \* providers configured for the chain

\* Nobody holds rr.mutex.
NoHolder == 0

\* A mutex that excludes nobody.
mutexFreeAlways(holder) == TRUE

\* rr.mutex.Lock() can return: the mutex is not held.
mutexFree(holder) == holder = NoHolder

RRIdle == [pc |-> "idle", payload |-> EmptyHandle, n |-> 0]

RRInit ==
    /\ kind = RRName
    /\ cfg = DefaultCfg
    /\ \E n \in 0..MaxRRProviders :
          /\ providers = NewProviders(n)
          /\ failAt = [i \in 0..(n - 1) |-> -1]
    /\ currentIX = 0
    /\ cl = [c \in Callers |-> RRIdle]
    /\ req = [holder |-> NoHolder, log |-> <<>>]
    /\ now = 0
    /\ nrel = 0
    /\ nborrow = 0
    /\ scoreObs = NoObs
    /\ cin = NoInput
    /\ cout = NoOutput

\* rr.mutex.Lock().
RRLock(c) ==
    /\ cl[c].pc = "idle"
    /\ nborrow < MaxRRBorrows
    /\ mutexFree(req.holder)
    /\ nborrow' = nborrow + 1
    /\ req' = [req EXCEPT !.holder = c]
    /\ cl' = [cl EXCEPT ![c].pc = "index"]
    /\ UNCHANGED <<kind, cfg, providers, currentIX, now, failAt, nrel, scoreObs, cin, cout>>

\* payload := rr.payload[rr.currentIX]; an index out of range panics, and
\* the deferred rr.mutex.Unlock() runs while the panic unwinds.
RRIndex(c) ==
    /\ cl[c].pc = "index"
    /\ IF currentIX \in DOMAIN providers
       THEN /\ cl' = [cl EXCEPT ![c].pc = "increment", ![c].payload = currentIX]
            /\ req' = [req EXCEPT !.log = Append(@, currentIX)]
       ELSE /\ cl' = [cl EXCEPT ![c].pc = "panicked"]
            /\ req' = [req EXCEPT !.holder = NoHolder]
    /\ UNCHANGED <<kind, cfg, providers, currentIX, now, failAt, nrel, nborrow, scoreObs, cin, cout>>

\* rr.currentIX++.
RRIncrement(c) ==
    /\ cl[c].pc = "increment"
    /\ currentIX' = currentIX + 1
    /\ cl' = [cl EXCEPT ![c].pc = "wrap"]
    /\ UNCHANGED <<kind, cfg, providers, now, failAt, nrel, nborrow, scoreObs, req, cin, cout>>

\* if rr.currentIX == len(rr.payload) { rr.currentIX = 0 }.
RRWrap(c) ==
    /\ cl[c].pc = "wrap"
    /\ currentIX' = IF currentIX = NProviders THEN 0 ELSE currentIX
    /\ cl' = [cl EXCEPT ![c].pc = "unlock"]
    /\ UNCHANGED <<kind, cfg, providers, now, failAt, nrel, nborrow, scoreObs, req, cin, cout>>

\* The deferred rr.mutex.Unlock(); Borrow returns the payload.
RRUnlock(c) ==
    /\ cl[c].pc = "unlock"
    /\ req' = [req EXCEPT !.holder = NoHolder]
    /\ cl' = [cl EXCEPT ![c].pc = "idle", ![c].n = @ + 1]
    /\ UNCHANGED <<kind, cfg, providers, currentIX, now, failAt, nrel, nborrow, scoreObs, cin, cout>>

RRNext ==
    \E c \in Callers :
        \/ RRLock(c)
        \/ RRIndex(c)
        \/ RRIncrement(c)
        \/ RRWrap(c)
        \/ RRUnlock(c)

SpecRR == RRInit /\ [][RRNext]_vars

(***************************************************************************)
(* Claims checked under SpecRR.                                            *)
(***************************************************************************)

\* C34: for a round-robin balancer over N >= 1 providers, under any
\* interleaving of concurrent borrows, the cursor always stays in [0, N)
\* (whenever the mutex is free and whenever a borrow indexes the providers
\* with it) and no cursor position is handed out twice or skipped within a
\* cycle: among any N*k consecutive borrows (in mutex acquisition order)
\* each provider is returned exactly k times.
C34_ConcurrentRoundRobin ==
    NProviders >= 1 =>
        /\ req.holder = NoHolder => currentIX \in 0..(NProviders - 1)
        /\ \A c \in Callers :
              /\ cl[c].pc # "panicked"
              /\ cl[c].pc = "index" => currentIX \in 0..(NProviders - 1)
        /\ \A a \in 1..Len(req.log), b \in 1..Len(req.log) :
              (a <= b /\ (b - a + 1) % NProviders = 0) =>
                  \A p \in DOMAIN providers :
                      Cardinality({i \in a..b : req.log[i] = p}) = (b - a + 1) \div NProviders

\* Six borrows over three providers, made by two callers, one of which is in
\* Borrow again holding the mutex.
C34_Witness ==
    /\ NProviders = 3
    /\ Len(req.log) = 6
    /\ \A c \in Callers : cl[c].n >= 1
    /\ req.holder # NoHolder

(***************************************************************************)
(* Configuration specification: validateConfig over the global and one     *)
(* chain's GlobalRPCConfig, then the balancer New constructs for the       *)
(* chain.                                                                  *)
(***************************************************************************)

\* GlobalRPCConfig{}: nothing given.
emptyGlobalRPCCfg == [BalancerType |-> "", NoRPCValidation |-> FALSE, P2CEWMA |-> ZeroP2CEWMA]

\* Parameters as configurations give them: none, all of them in range, only
\* some, one out of range.
SampleP2CEWMA ==
    { ZeroP2CEWMA,
      [smooth |-> <<1, 2>>, loadNormalizer |-> <<2, 1>>, penaltyDecay |-> <<1, 10>>, cooldown |-> 2],
      [smooth |-> <<1, 2>>, loadNormalizer |-> <<0, 1>>, penaltyDecay |-> <<0, 1>>, cooldown |-> 0],
      [smooth |-> <<3, 2>>, loadNormalizer |-> <<2, 1>>, penaltyDecay |-> <<1, 2>>, cooldown |-> 2] }

SampleRPCConfigs ==
    [BalancerType : {"", P2CEWMAName, RRName, LCName, "random"},
     NoRPCValidation : BOOLEAN, P2CEWMA : SampleP2CEWMA]

\* validateGlobalRPCConfig: whether it fails, and the configuration it
\* leaves behind its pointer.
validateGlobalRPCConfig(g) ==
    IF g.BalancerType \in {RRName, LCName}
    THEN [err |-> FALSE, cfg |-> g]
    ELSE IF g.BalancerType \notin {"", P2CEWMAName}
    THEN [err |-> TRUE, cfg |-> g]
    ELSE LET typed == [g EXCEPT !.BalancerType = P2CEWMAName]
             c == g.P2CEWMA
         IN  IF c = ZeroP2CEWMA
             THEN [err |-> FALSE, cfg |-> [typed EXCEPT !.P2CEWMA = DefaultCfg]]
             ELSE IF RLess(c.smooth, <<0, 1>>) \/ RLess(<<1, 1>>, c.smooth)
             THEN [err |-> TRUE, cfg |-> typed]
             ELSE IF RLess(c.penaltyDecay, <<0, 1>>) \/ RLess(<<1, 1>>, c.penaltyDecay)
             THEN [err |-> TRUE, cfg |-> typed]
             ELSE IF RLeq(c.loadNormalizer, <<0, 1>>)
             THEN [err |-> TRUE, cfg |-> typed]
             ELSE [err |-> FALSE, cfg |-> typed]

\* validateRPCs for one chain, the global configuration being validated:
\* whether it fails, and the chain's configuration in cfg.RPCs afterwards.
\* A chain that gives nothing takes the global configuration; for another
\* one validateGlobalRPCConfig works on the loop variable, a copy, and what
\* it fills in is lost.
validateRPCs(global, chain, nProviders) ==
    IF nProviders = 0
    THEN [err |-> TRUE, cfg |-> chain]
    ELSE IF chain = emptyGlobalRPCCfg
    THEN [err |-> FALSE, cfg |-> global]
    ELSE [err |-> validateGlobalRPCConfig(chain).err, cfg |-> chain]

\* validateConfig: the global configuration first, then the chains.
validateConfig(global, chain, nProviders) ==
    LET g == validateGlobalRPCConfig(global)
    IN  IF g.err
        THEN [err |-> TRUE, cfg |-> chain]
        ELSE validateRPCs(g.cfg, chain, nProviders)

NoChain == [done |-> FALSE, err |-> FALSE, rpc |-> emptyGlobalRPCCfg, registered |-> FALSE]

ConfigInit ==
    /\ \E global \in SampleRPCConfigs, chain \in SampleRPCConfigs, n \in 0..1 :
          cin = [global |-> global, chain |-> chain, nProviders |-> n]
    /\ cout = NoChain
    /\ kind = RRName
    /\ cfg = DefaultCfg
    /\ providers = NewProviders(1)
    /\ failAt = [i \in {0} |-> -1]
    /\ currentIX = 0
    /\ now = 0
    /\ nrel = 0
    /\ nborrow = 0
    /\ scoreObs = NoObs
    /\ cl = <<>>
    /\ req = <<>>

\* ParseConfig validates; proxy.New builds the chain's balancer from the
\* validated configuration.
Configure ==
    /\ ~cout.done
    /\ LET v == validateConfig(cin.global, cin.chain, cin.nProviders)
       IN  cout' = [done |-> TRUE, err |-> v.err, rpc |-> v.cfg,
                    registered |-> ~v.err /\ balancerRegistered(v.cfg)]
    /\ UNCHANGED <<kind, cfg, providers, currentIX, now, failAt, nrel, nborrow, scoreObs, cl, req, cin>>

ConfigNext == Configure

SpecConfig == ConfigInit /\ [][ConfigNext]_vars

(***************************************************************************)
(* Claims checked under SpecConfig.                                        *)
(***************************************************************************)

\* The level the chain's parameters come from: its own, or the global one
\* when the chain gives nothing.
SourceLevel == IF cin.chain = emptyGlobalRPCCfg THEN cin.global ELSE cin.chain

\* C36: for every configuration accepted by validation, every chain has a
\* balancer kind in {p2cewma, round-robin, least-connection} with a balancer
\* instance registered for its path, and every chain whose kind is p2cewma is
\* constructed with smooth in [0,1], load_normalizer > 0 and penalty_decay
\* in [0,1], the defaults (0.3, 8, 0.8, 10 s) being used when the parameters
\* or the kind are omitted at chain level.
C36_ValidatedChains ==
    (cout.done /\ ~cout.err) =>
        /\ cout.rpc.BalancerType \in {P2CEWMAName, RRName, LCName}
        /\ cout.registered
        /\ cout.rpc.BalancerType = P2CEWMAName =>
              /\ RLeq(<<0, 1>>, cout.rpc.P2CEWMA.smooth)
              /\ RLeq(cout.rpc.P2CEWMA.smooth, <<1, 1>>)
              /\ RLess(<<0, 1>>, cout.rpc.P2CEWMA.loadNormalizer)
              /\ RLeq(<<0, 1>>, cout.rpc.P2CEWMA.penaltyDecay)
              /\ RLeq(cout.rpc.P2CEWMA.penaltyDecay, <<1, 1>>)
              /\ SourceLevel.P2CEWMA = ZeroP2CEWMA => cout.rpc.P2CEWMA = DefaultCfg
        /\ SourceLevel.BalancerType = "" => cout.rpc.BalancerType = P2CEWMAName

(***************************************************************************)
(* Provider-mutex specification: NumCallers goroutines borrow from and     *)
(* release to one P2C-EWMA balancer, each Lock and Unlock of a provider's  *)
(* mutex being a step of its own.  req holds, for every provider, the      *)
(* caller that holds its mutex.  The clock stands still.                   *)
(***************************************************************************)
MaxLockBorrows == 2    \* Borrow calls made in one behaviour

LockCfg == [smooth |-> <<1, 2>>, loadNormalizer |-> <<2, 1>>, penaltyDecay |-> <<1, 10>>, cooldown |-> 2]

\* The parameters the balancer is built with: validated ones, or the zero
\* value.
LockCfgs == {LockCfg, ZeroP2CEWMA}

LockLatencies == {4}

LockIdle ==
    [pc |-> "idle", i |-> -1, j |-> -1, tnow |-> -1, rd |-> NewProvider,
     si |-> <<0, 1>>, sj |-> <<0, 1>>, held |-> -1, ok |-> TRUE, lat |-> 0]

\* The provider whose mutex caller c is about to lock, or holds.
lockTarget(c) ==
    IF cl[c].pc \in {"lock_i", "read_i"} THEN cl[c].i
    ELSE IF cl[c].pc \in {"lock_j", "read_j"} THEN cl[c].j
    ELSE cl[c].held

\* An Unlock that is left out.
mutexUnlockNever(mu, p) == mu

\* p.mutex.Unlock()
mutexUnlock(mu, p) == [mu EXCEPT ![p] = NoHolder]

\* A provider as NewP2CEWMA makes it, and as one borrow released with
\* ok = false at time 0 leaves it.
LockProviders ==
    { NewProvider,
      onRelease(NewProvider, FALSE, 4, cfg.smooth, cfg.penaltyDecay, cfg.cooldown, 0) }

LockInit ==
    /\ kind = P2CEWMAName
    /\ cfg \in LockCfgs
    /\ \E n \in 0..MaxProviders :
          /\ providers \in [0..(n - 1) -> LockProviders]
          /\ failAt = [i \in 0..(n - 1) |-> IF providers[i] = NewProvider THEN -1 ELSE 0]
          /\ req = [i \in 0..(n - 1) |-> NoHolder]
    /\ currentIX = 0
    /\ now = 0
    /\ nrel = 0
    /\ nborrow = 0
    /\ scoreObs = NoObs
    /\ cl = [c \in Callers |-> LockIdle]
    /\ cin = NoInput
    /\ cout = NoOutput

\* P2CEWMA.Borrow / p2c up to the reading of the clock.
LockBorrow(c) ==
    /\ cl[c].pc = "idle"
    /\ nborrow < MaxLockBorrows
    /\ nborrow' = nborrow + 1
    /\ IF NProviders = 0
       THEN cl' = [cl EXCEPT ![c].pc = "holding", ![c].held = -1]
       ELSE IF NProviders = 1
       THEN cl' = [cl EXCEPT ![c].pc = "inc", ![c].held = 0]
       ELSE \E i \in 0..(NProviders - 1), j \in 0..(NProviders - 2) :
               cl' = [cl EXCEPT ![c].pc = "lock_i", ![c].i = i, ![c].j = p2cSecond(i, j),
                                ![c].tnow = now]
    /\ UNCHANGED <<kind, cfg, providers, currentIX, now, failAt, nrel, scoreObs, req, cin, cout>>

\* p.mutex.Lock() in score and in onRelease: taken when no goroutine holds it.
LockAcquire(c) ==
    /\ cl[c].pc \in {"lock_i", "lock_j", "lock_r"}
    /\ mutexFree(req[lockTarget(c)])
    /\ req' = [req EXCEPT ![lockTarget(c)] = c]
    /\ cl' = [cl EXCEPT ![c].pc = CASE cl[c].pc = "lock_i" -> "read_i"
                                    [] cl[c].pc = "lock_j" -> "read_j"
                                    [] OTHER -> "update"]
    /\ UNCHANGED <<kind, cfg, providers, currentIX, now, failAt, nrel, nborrow, scoreObs, cin, cout>>

\* Provider.score under the mutex: ewmaMS, penalty and unhealthyUntil are
\* copied and the mutex is unlocked; in cooldown the score is +Inf at once,
\* and for pj that ends p2c.
LockScoreRead(c) ==
    /\ cl[c].pc \in {"read_i", "read_j"}
    /\ LET t == lockTarget(c)
           p == providers[t]
           s == score(p, cl[c].tnow, cfg.loadNormalizer)
       IN  /\ req' = mutexUnlock(req, t)
           /\ IF ~(cl[c].tnow < p.unhealthyUntil)
              THEN cl' = [cl EXCEPT ![c].rd = p,
                                    ![c].pc = IF cl[c].pc = "read_i" THEN "load_i" ELSE "load_j"]
              ELSE IF cl[c].pc = "read_i"
              THEN cl' = [cl EXCEPT ![c].si = s, ![c].pc = "lock_j"]
              ELSE cl' = [cl EXCEPT ![c].sj = s, ![c].pc = "inc",
                                    ![c].held = p2cChoose(cl[c].i, cl[c].j, cl[c].si, s)]
    /\ UNCHANGED <<kind, cfg, providers, currentIX, now, failAt, nrel, nborrow, scoreObs, cin, cout>>

\* Provider.score after the mutex: the atomic load of inFlight and the score;
\* for pj the comparison that ends p2c.
LockScoreLoad(c) ==
    /\ cl[c].pc \in {"load_i", "load_j"}
    /\ LET t == IF cl[c].pc = "load_i" THEN cl[c].i ELSE cl[c].j
           p == [cl[c].rd EXCEPT !.inFlight = providers[t].inFlight]
           s == score(p, cl[c].tnow, cfg.loadNormalizer)
       IN  IF cl[c].pc = "load_i"
           THEN cl' = [cl EXCEPT ![c].si = s, ![c].rd = NewProvider, ![c].pc = "lock_j"]
           ELSE cl' = [cl EXCEPT ![c].sj = s, ![c].rd = NewProvider, ![c].pc = "inc",
                                 ![c].held = p2cChoose(cl[c].i, cl[c].j, cl[c].si, s)]
    /\ UNCHANGED <<kind, cfg, providers, currentIX, now, failAt, nrel, nborrow, scoreObs, req, cin, cout>>

\* inFlightInc of the chosen provider; Borrow returns.
LockInc(c) ==
    /\ cl[c].pc = "inc"
    /\ providers' = [providers EXCEPT ![cl[c].held] = inFlightInc(@)]
    /\ cl' = [cl EXCEPT ![c] = [LockIdle EXCEPT !.pc = "holding", !.held = cl[c].held]]
    /\ UNCHANGED <<kind, cfg, currentIX, now, failAt, nrel, nborrow, scoreObs, req, cin, cout>>

\* The release callback is called; that of the empty balancer does nothing.
LockRelease(c, ok, lat) ==
    /\ cl[c].pc = "holding"
    /\ IF cl[c].held = -1
       THEN cl' = [cl EXCEPT ![c] = LockIdle]
       ELSE cl' = [cl EXCEPT ![c].pc = "lock_r", ![c].ok = ok, ![c].lat = lat]
    /\ UNCHANGED <<kind, cfg, providers, currentIX, now, failAt, nrel, nborrow, scoreObs, req, cin, cout>>

\* Provider.onRelease under the mutex, the deferred Unlock included.
LockOnRelease(c) ==
    /\ cl[c].pc = "update"
    /\ LET h == cl[c].held
       IN  /\ providers' = [providers EXCEPT ![h] =
                   onRelease(@, cl[c].ok, cl[c].lat, cfg.smooth, cfg.penaltyDecay, cfg.cooldown, now)]
           /\ failAt' = IF cl[c].ok THEN failAt ELSE [failAt EXCEPT ![h] = now]
           /\ req' = mutexUnlock(req, h)
    /\ cl' = [cl EXCEPT ![c].pc = "dec"]
    /\ UNCHANGED <<kind, cfg, currentIX, now, nrel, nborrow, scoreObs, cin, cout>>

\* inFlightDec; the release callback returns.
LockDec(c) ==
    /\ cl[c].pc = "dec"
    /\ providers' = [providers EXCEPT ![cl[c].held] = inFlightDec(@)]
    /\ cl' = [cl EXCEPT ![c] = LockIdle]
    /\ UNCHANGED <<kind, cfg, currentIX, now, failAt, nrel, nborrow, scoreObs, req, cin, cout>>

LockNext ==
    \/ \E c \in Callers : LockBorrow(c)
    \/ \E c \in Callers : LockAcquire(c)
    \/ \E c \in Callers : LockScoreRead(c)
    \/ \E c \in Callers : LockScoreLoad(c)
    \/ \E c \in Callers : LockInc(c)
    \/ \E c \in Callers, ok \in BOOLEAN, lat \in LockLatencies : LockRelease(c, ok, lat)
    \/ \E c \in Callers : LockOnRelease(c)
    \/ \E c \in Callers : LockDec(c)

SpecLock == LockInit /\ [][LockNext]_vars

\* The steps of a goroutine that touch no provider statistics.
LockStep(c) ==
    \/ LockScoreRead(c)
    \/ LockInc(c)
    \/ LockDec(c)

\* Every goroutine inside a call is scheduled, and a goroutine waiting for a
\* mutex that is unlocked again and again gets it (sync.Mutex hands the
\* mutex to a starving waiter).  LockScoreLoad and LockOnRelease are enabled
\* exactly at their control points and leave them, so their weak fairness is
\* that no goroutine stays at such a point for ever.
SpecLockFair ==
    /\ SpecLock
    /\ \A c \in Callers :
          /\ SF_vars(LockAcquire(c))
          /\ WF_vars(LockStep(c))
          /\ []<>(cl[c].pc \notin {"load_i", "load_j", "update"})

(***************************************************************************)
(* Claims checked under SpecLock and SpecLockFair.                         *)
(***************************************************************************)

\* Caller c is inside Borrow or inside the release callback.
InCall(c) == cl[c].pc \notin {"idle", "holding"}

\* The provider mutexes caller c holds.
MutexesHeld(c) == {p \in DOMAIN req : req[p] = c}

\* No goroutine holds two provider mutexes, and none outside a locked section.
OneMutexAtATime ==
    \A c \in Callers :
        /\ Cardinality(MutexesHeld(c)) <= 1
        /\ MutexesHeld(c) # {} => cl[c].pc \in {"read_i", "read_j", "update"}

\* Caller c, inside a call, can take its next step: it does not wait for a
\* mutex, or the mutex it waits for is unlocked.
CanStep(c) ==
    /\ InCall(c)
    /\ cl[c].pc \in {"lock_i", "lock_j", "lock_r"} => mutexFree(req[lockTarget(c)])

\* While a goroutine is inside a call, one of them can take a step.
NoDeadlock ==
    (\E c \in Callers : InCall(c)) => \E c \in Callers : CanStep(c)

\* C37: no borrow or release on a P2C-EWMA balancer holds more than one
\* provider lock at a time and there is no chain-wide lock, so under any
\* interleaving of concurrent borrows and releases on the same chain no
\* deadlock is reachable and every borrow and every release completes.
C37_NoDeadlock ==
    /\ [](OneMutexAtATime /\ NoDeadlock)
    /\ \A c \in Callers : InCall(c) ~> ~InCall(c)

\* A goroutine waits for the mutex of the provider another goroutine is
\* updating in its release, both having borrowed that provider.
C37_Witness ==
    \E c, d \in Callers :
        /\ c # d
        /\ NProviders = 2
        /\ cl[c].pc = "lock_j"
        /\ cl[d].pc = "update"
        /\ cl[c].j = cl[d].held
        /\ ~mutexFree(req[cl[c].j])

====
